---- MODULE Spec2Model ----
(***************************************************************************)
(* A model of the project-manager CLI (pikachumetal/project-manager):      *)
(* the JSON config store (projects, tools, recents, settings), the         *)
(* recents tracker, the quick-launch resolver, the launch flow and the     *)
(* workspace management flow.                                              *)
(*                                                                         *)
(* Strings are sequences of one-character strings, so that toLowerCase     *)
(* and includes are computed as the JavaScript runtime computes them.      *)
(* A config file is absent, text that is not JSON, or a JSON document;     *)
(* JSON documents are tagged records.  In-memory values (Project, Tool,    *)
(* Settings) are records; an optional property is a sequence of length 0   *)
(* (undefined) or 1.                                                       *)
(***************************************************************************)
EXTENDS Integers, Sequences, FiniteSets, TLC

VARIABLES
    disk,       \* [dir: CONFIG_DIR exists, files: config path -> file content]
    op,         \* name of the last completed call ("init" before any)
    arg,        \* the argument(s) of the last call
    ret,        \* the value the last call returned (Undefined if it threw)
    threw,      \* TRUE iff the last call raised
    pre,        \* [disk, projects] as they were when the last call started
    writes,     \* config-store writers invoked during the last call, in order
    launched,   \* arguments handed to launchTool during the last call, in order
    logged,     \* p.log / p.note messages emitted during the last call
    projects,   \* the in-memory Project[] held by the running flow
    selected,   \* index in projects of the project under manageWorkspaces
    request,    \* the arguments of the run: of quickLaunch, or the command line
    folders,    \* the project paths for which existsSync is true
    added,      \* ghost of SpecRecents: the names passed to addRecent, oldest first
    spawned,    \* the spawn calls made during the last call, in order
    host,       \* the machine: the workspace listing, what spawn does, gsudo
    tasks,      \* what runs beside the last call: the calls of concurrent
                \* instances of the program, the version probes in flight
    defaults    \* the DEFAULT_TOOLS array of the running process, as it is now

vars == <<disk, op, arg, ret, threw, pre, writes, launched, logged,
          projects, selected, request, folders, added, spawned, host, tasks,
          defaults>>

----------------------------------------------------------------------------
(* Strings *)

UpperChars == <<"A","B","C","D","E","F","G","H","I","J","K","L","M",
                "N","O","P","Q","R","S","T","U","V","W","X","Y","Z">>
LowerChars == <<"a","b","c","d","e","f","g","h","i","j","k","l","m",
                "n","o","p","q","r","s","t","u","v","w","x","y","z">>

\* String.prototype.toLowerCase, one character
LowerChar(c) ==
    IF \E i \in DOMAIN UpperChars : UpperChars[i] = c
    THEN LowerChars[CHOOSE i \in DOMAIN UpperChars : UpperChars[i] = c]
    ELSE c

\* String.prototype.toLowerCase
toLowerCase(s) == [i \in DOMAIN s |-> LowerChar(s[i])]

\* String.prototype.includes: q occurs in s as a contiguous substring
includes(s, q) ==
    \E k \in 0..(Len(s) - Len(q)) :
        \A i \in 1..Len(q) : s[k + i] = q[i]

\* Array.prototype.slice(0, n)
slice0(s, n) == SubSeq(s, 1, IF Len(s) < n THEN Len(s) ELSE n)

\* Array.prototype.find, given the set of indices whose element passes the
\* test: the element at the least such index, as an optional
findFirst(s, hits) ==
    IF hits = {} THEN <<>>
    ELSE <<s[CHOOSE i \in hits : \A j \in hits : i <= j]>>

\* Array.prototype.splice(i, 1) with a 0-based index i
splice1(s, i) == SubSeq(s, 1, i) \o SubSeq(s, i + 2, Len(s))

Range(s) == {s[i] : i \in DOMAIN s}

----------------------------------------------------------------------------
(* JSON documents and file contents *)

JNull == [t |-> "null"]
JNum == [t |-> "num"]
JBool(b) == [t |-> "bool", b |-> b]
JStr(s) == [t |-> "str", s |-> s]
JArr(items) == [t |-> "arr", items |-> items]
JObj(fields) == [t |-> "obj", fields |-> fields]

\* the empty JSON object {}
NoFields == [k \in {} |-> JNull]

Absent == [st |-> "absent"]
NotJson == [st |-> "text"]
Json(doc) == [st |-> "json", doc |-> doc]

\* the value of an unset variable / a void return
Undefined == [t |-> "undefined"]

\* existsSync(path) of a config file
existsSync(d, path) == d.files[path].st # "absent"

\* JSON.parse(readFileSync(path)): raises SyntaxError on text that is not JSON
JSONparse(content) ==
    IF content.st = "json" THEN [ok |-> TRUE, v |-> content.doc]
    ELSE [ok |-> FALSE]

IsStr(v) == v.t = "str"
Has(v, k) == k \in DOMAIN v.fields

\* JSON.stringify leaves out a property whose value is undefined
OptStrField(k, o) == IF o # <<>> THEN k :> JStr(o[1]) ELSE NoFields
OptBoolField(k, o) == IF o # <<>> THEN k :> JBool(o[1]) ELSE NoFields

----------------------------------------------------------------------------
(* The outcome of a call: the value returned, whether it raised, the disk  *)
(* it leaves, and what it wrote, logged and launched on the way.           *)

Returns(v, d) ==
    [ret |-> v, threw |-> FALSE, disk |-> d,
     writes |-> <<>>, logged |-> <<>>, launched |-> <<>>, spawned |-> <<>>]

Throws(d) ==
    [ret |-> Undefined, threw |-> TRUE, disk |-> d,
     writes |-> <<>>, logged |-> <<>>, launched |-> <<>>, spawned |-> <<>>]

\* the value left by a call that never returned: an 'error' event without a
\* listener became an uncaught exception and ended the process
Uncaught == [t |-> "uncaught"]

Msg(level, text, data) == [level |-> level, text |-> text, data |-> data]

\* the outcome of running `second` after `first` completed without raising:
\* effects accumulate, the result is the second's
Then(first, second) ==
    [second EXCEPT !.writes = first.writes \o @,
                   !.logged = first.logged \o @,
                   !.launched = first.launched \o @,
                   !.spawned = first.spawned \o @]

----------------------------------------------------------------------------
(* Config store: paths *)

CONFIG_PATH == "projects.json"
TOOLS_PATH == "tools.json"
RECENTS_PATH == "recents.json"
SETTINGS_PATH == "settings.json"
ConfigPaths == {CONFIG_PATH, TOOLS_PATH, RECENTS_PATH, SETTINGS_PATH}

\* ensureConfigDir(): mkdirSync(CONFIG_DIR) unless it exists
\* an ensureConfigDir that creates nothing
ensureNothing(d) == d

ensureConfigDir(d) == [d EXCEPT !.dir = TRUE]

\* writeFileSync(path, JSON.stringify(doc, null, 2)): raises ENOENT when the
\* directory of the file does not exist
writeFileSync(d, path, doc) ==
    IF d.dir THEN [ok |-> TRUE, disk |-> [d EXCEPT !.files[path] = Json(doc)]]
    ELSE [ok |-> FALSE, disk |-> d]

----------------------------------------------------------------------------
(* types: Workspace, Project *)

\* z.object({ name: z.string(), path: z.string() }) accepts v
WorkspaceSchemaOk(v) ==
    /\ v.t = "obj"
    /\ Has(v, "name") /\ IsStr(v.fields["name"])
    /\ Has(v, "path") /\ IsStr(v.fields["path"])

\* the Workspace it yields (unknown keys are stripped)
WorkspaceSchemaParse(v) ==
    [name |-> v.fields["name"].s, path |-> v.fields["path"].s]

\* the default of ProjectSchema.workspaces
DefaultWorkspaces == <<[name |-> <<"R","o","o","t">>, path |-> <<".">>]>>

\* ProjectSchema accepts v
ProjectSchemaOk(v) ==
    /\ v.t = "obj"
    /\ Has(v, "name") /\ IsStr(v.fields["name"])
    /\ Has(v, "path") /\ IsStr(v.fields["path"])
    /\ Has(v, "workspaces") =>
          /\ v.fields["workspaces"].t = "arr"
          /\ \A i \in DOMAIN v.fields["workspaces"].items :
                WorkspaceSchemaOk(v.fields["workspaces"].items[i])
    /\ Has(v, "command") => IsStr(v.fields["command"])

\* a ProjectSchema without the command property
ProjectSchemaParseNoCommand(v) ==
    [name |-> v.fields["name"].s,
     path |-> v.fields["path"].s,
     workspaces |->
        IF Has(v, "workspaces")
        THEN [i \in DOMAIN v.fields["workspaces"].items |->
                 WorkspaceSchemaParse(v.fields["workspaces"].items[i])]
        ELSE DefaultWorkspaces,
     command |-> <<>>]

\* the Project it yields: workspaces defaulted, command optional
ProjectSchemaParse(v) ==
    [name |-> v.fields["name"].s,
     path |-> v.fields["path"].s,
     workspaces |->
        IF Has(v, "workspaces")
        THEN [i \in DOMAIN v.fields["workspaces"].items |->
                 WorkspaceSchemaParse(v.fields["workspaces"].items[i])]
        ELSE DefaultWorkspaces,
     command |-> IF Has(v, "command") THEN <<v.fields["command"].s>> ELSE <<>>]

\* ConfigSchema = z.array(ProjectSchema)
ConfigSchemaOk(v) ==
    /\ v.t = "arr"
    /\ \A i \in DOMAIN v.items : ProjectSchemaOk(v.items[i])

ConfigSchemaParse(v) == [i \in DOMAIN v.items |-> ProjectSchemaParse(v.items[i])]

\* getDefaultProjects()
getDefaultProjects == <<>>

\* JSON.stringify of a Workspace
WorkspaceJson(w) == JObj([name |-> JStr(w.name), path |-> JStr(w.path)])

\* JSON.stringify of a Project: a property that is undefined is left out
ProjectJson(p) ==
    JObj([name |-> JStr(p.name),
          path |-> JStr(p.path),
          workspaces |-> JArr([i \in DOMAIN p.workspaces |->
                                  WorkspaceJson(p.workspaces[i])])]
         @@ OptStrField("command", p.command))

ProjectsJson(ps) == JArr([i \in DOMAIN ps |-> ProjectJson(ps[i])])

----------------------------------------------------------------------------
(* Config store: projects and recents *)

loadProjectsFailed == Msg("error", "Error loading projects.json", Undefined)

\* a loadProjects that seeds the missing file with the default
loadProjectsSeeding(d) ==
    IF ~existsSync(d, CONFIG_PATH)
    THEN Returns(getDefaultProjects,
                 [d EXCEPT !.files[CONFIG_PATH] = Json(JArr(<<>>))])
    ELSE LET data == JSONparse(d.files[CONFIG_PATH]) IN
         IF data.ok /\ ConfigSchemaOk(data.v)
         THEN Returns(ConfigSchemaParse(data.v), d)
         ELSE Returns(getDefaultProjects, d)

loadProjects(d) ==
    IF ~existsSync(d, CONFIG_PATH) THEN Returns(getDefaultProjects, d)
    ELSE LET data == JSONparse(d.files[CONFIG_PATH]) IN
         IF data.ok /\ ConfigSchemaOk(data.v)
         THEN LET parsed == ConfigSchemaParse(data.v) IN
              Returns(IF Len(parsed) > 0 THEN parsed ELSE getDefaultProjects, d)
         ELSE [Returns(getDefaultProjects, d) EXCEPT
                  !.logged = <<loadProjectsFailed>>]

\* loadRecents(): whatever JSON.parse yields, unvalidated; [] when the file
\* is absent or is not JSON
loadRecents(d) ==
    IF ~existsSync(d, RECENTS_PATH) THEN Returns(JArr(<<>>), d)
    ELSE LET data == JSONparse(d.files[RECENTS_PATH]) IN
         IF data.ok THEN Returns(data.v, d) ELSE Returns(JArr(<<>>), d)

\* the number of recents kept
MaxRecents == 10

\* an addRecent that appends the name instead of moving it to the front
addRecentAtEnd(d, projectName) ==
    LET d1 == ensureConfigDir(d)
        loaded == loadRecents(d1).ret
    IN  IF loaded.t # "arr" THEN Throws(d1)
        ELSE LET NotIt(r) == r # JStr(projectName)
                 w == writeFileSync(d1, RECENTS_PATH,
                         JArr(slice0(SelectSeq(loaded.items, NotIt)
                                     \o <<JStr(projectName)>>, MaxRecents)))
             IN  [Returns(Undefined, w.disk) EXCEPT !.writes = <<"addRecent">>]

\* an addRecent that prepends without removing the earlier occurrence
addRecentKeepingDuplicates(d, projectName) ==
    LET d1 == ensureConfigDir(d)
        loaded == loadRecents(d1).ret
    IN  IF loaded.t # "arr" THEN Throws(d1)
        ELSE LET w == writeFileSync(d1, RECENTS_PATH,
                         JArr(slice0(<<JStr(projectName)>> \o loaded.items, MaxRecents)))
             IN  [Returns(Undefined, w.disk) EXCEPT !.writes = <<"addRecent">>]

\* addRecent(projectName): .filter exists on arrays only, so any other value
\* loaded raises TypeError before anything is written
addRecent(d, projectName) ==
    LET d1 == ensureConfigDir(d)
        loaded == loadRecents(d1).ret
    IN  IF loaded.t # "arr" THEN Throws(d1)
        ELSE LET NotIt(r) == r # JStr(projectName)
                 recents == <<JStr(projectName)>> \o SelectSeq(loaded.items, NotIt)
                 trimmed == slice0(recents, MaxRecents)
                 w == writeFileSync(d1, RECENTS_PATH, JArr(trimmed))
             IN  IF w.ok
                 THEN [Returns(Undefined, w.disk) EXCEPT !.writes = <<"addRecent">>]
                 ELSE Throws(w.disk)

saveProjects(d, ps) ==
    LET w == writeFileSync(ensureConfigDir(d), CONFIG_PATH, ProjectsJson(ps))
    IN  IF w.ok
        THEN [Returns(Undefined, w.disk) EXCEPT !.writes = <<"saveProjects">>]
        ELSE Throws(w.disk)

----------------------------------------------------------------------------
(* types: Tool, Settings *)

\* an optional string property of a JSON object is absent or a string
OptStrOk(v, k) == Has(v, k) => IsStr(v.fields[k])
OptStr(v, k) == IF Has(v, k) THEN <<v.fields[k].s>> ELSE <<>>

\* a z.boolean().default(..) property is absent or a boolean
DefBoolOk(v, k) == Has(v, k) => v.fields[k].t = "bool"
DefBool(v, k, default) == IF Has(v, k) THEN v.fields[k].b ELSE default

\* ToolSchema accepts v
ToolSchemaOk(v) ==
    /\ v.t = "obj"
    /\ Has(v, "id") /\ IsStr(v.fields["id"])
    /\ Has(v, "name") /\ IsStr(v.fields["name"])
    /\ Has(v, "executable") /\ IsStr(v.fields["executable"])
    /\ OptStrOk(v, "versionArgs")
    /\ OptStrOk(v, "updateCommand")
    /\ DefBoolOk(v, "enabled")
    /\ DefBoolOk(v, "launchInTerminal")
    /\ DefBoolOk(v, "supportsAdmin")
    /\ OptStrOk(v, "launchArgs")
    /\ Has(v, "projectFilePatterns") =>
          /\ v.fields["projectFilePatterns"].t = "arr"
          /\ \A i \in DOMAIN v.fields["projectFilePatterns"].items :
                IsStr(v.fields["projectFilePatterns"].items[i])

\* a parse in which a tool that does not say so is not enabled
ToolSchemaParseOptIn(v) ==
    [id |-> v.fields["id"].s,
     name |-> v.fields["name"].s,
     executable |-> v.fields["executable"].s,
     versionArgs |-> OptStr(v, "versionArgs"),
     updateCommand |-> OptStr(v, "updateCommand"),
     enabled |-> DefBool(v, "enabled", FALSE),
     launchInTerminal |-> DefBool(v, "launchInTerminal", FALSE),
     supportsAdmin |-> <<DefBool(v, "supportsAdmin", FALSE)>>,
     launchArgs |-> OptStr(v, "launchArgs"),
     projectFilePatterns |->
        IF Has(v, "projectFilePatterns")
        THEN <<[i \in DOMAIN v.fields["projectFilePatterns"].items |->
                  v.fields["projectFilePatterns"].items[i].s]>>
        ELSE <<>>]

\* the Tool it yields: enabled defaults to true, launchInTerminal and
\* supportsAdmin to false; unknown keys are stripped
ToolSchemaParse(v) ==
    [id |-> v.fields["id"].s,
     name |-> v.fields["name"].s,
     executable |-> v.fields["executable"].s,
     versionArgs |-> OptStr(v, "versionArgs"),
     updateCommand |-> OptStr(v, "updateCommand"),
     enabled |-> DefBool(v, "enabled", TRUE),
     launchInTerminal |-> DefBool(v, "launchInTerminal", FALSE),
     supportsAdmin |-> <<DefBool(v, "supportsAdmin", FALSE)>>,
     launchArgs |-> OptStr(v, "launchArgs"),
     projectFilePatterns |->
        IF Has(v, "projectFilePatterns")
        THEN <<[i \in DOMAIN v.fields["projectFilePatterns"].items |->
                  v.fields["projectFilePatterns"].items[i].s]>>
        ELSE <<>>]

\* ToolsConfigSchema = z.array(ToolSchema)
ToolsConfigSchemaOk(v) ==
    /\ v.t = "arr"
    /\ \A i \in DOMAIN v.items : ToolSchemaOk(v.items[i])

ToolsConfigSchemaParse(v) == [i \in DOMAIN v.items |-> ToolSchemaParse(v.items[i])]

\* JSON.stringify of a Tool
ToolJson(t) ==
    JObj([id |-> JStr(t.id),
          name |-> JStr(t.name),
          executable |-> JStr(t.executable),
          enabled |-> JBool(t.enabled),
          launchInTerminal |-> JBool(t.launchInTerminal)]
         @@ OptStrField("versionArgs", t.versionArgs)
         @@ OptStrField("updateCommand", t.updateCommand)
         @@ OptBoolField("supportsAdmin", t.supportsAdmin)
         @@ OptStrField("launchArgs", t.launchArgs)
         @@ (IF t.projectFilePatterns # <<>>
             THEN [projectFilePatterns |->
                      JArr([i \in DOMAIN t.projectFilePatterns[1] |->
                               JStr(t.projectFilePatterns[1][i])])]
             ELSE NoFields))

ToolsJson(ts) == JArr([i \in DOMAIN ts |-> ToolJson(ts[i])])

DEFAULT_TOOLS == <<
    [id |-> <<"c","l","a","u","d","e">>,
     name |-> <<"C","l","a","u","d","e"," ","C","o","d","e">>,
     executable |-> <<"c","l","a","u","d","e">>,
     versionArgs |-> <<<<"-","-","v","e","r","s","i","o","n">>>>, updateCommand |-> <<<<"c","l","a","u","d","e"," ","u","p","d","a","t","e">>>>,
     enabled |-> TRUE, launchInTerminal |-> TRUE, supportsAdmin |-> <<TRUE>>,
     launchArgs |-> <<>>,
     projectFilePatterns |-> <<>>],
    [id |-> <<"g","e","m","i","n","i">>,
     name |-> <<"G","e","m","i","n","i"," ","C","L","I">>,
     executable |-> <<"g","e","m","i","n","i">>,
     versionArgs |-> <<<<"-","-","v","e","r","s","i","o","n">>>>, updateCommand |-> <<<<"b","u","n"," ","u","p","d","a","t","e"," ","-","-","g","l","o","b","a","l"," ","@","g","o","o","g","l","e","/","g","e","m","i","n","i","-","c","l","i">>>>,
     enabled |-> TRUE, launchInTerminal |-> TRUE, supportsAdmin |-> <<TRUE>>,
     launchArgs |-> <<>>,
     projectFilePatterns |-> <<>>],
    [id |-> <<"a","n","t","i","g","r","a","v","i","t","y">>,
     name |-> <<"A","n","t","i","g","r","a","v","i","t","y">>,
     executable |-> <<"a","n","t","i","g","r","a","v","i","t","y">>,
     versionArgs |-> <<>>, updateCommand |-> <<>>,
     enabled |-> TRUE, launchInTerminal |-> FALSE, supportsAdmin |-> <<>>,
     launchArgs |-> <<>>,
     projectFilePatterns |-> <<<<<<"*",".","c","o","d","e","-","w","o","r","k","s","p","a","c","e">>>>>>],
    [id |-> <<"v","s","c","o","d","e">>,
     name |-> <<"V","S"," ","C","o","d","e">>,
     executable |-> <<"c","o","d","e">>,
     versionArgs |-> <<>>, updateCommand |-> <<>>,
     enabled |-> TRUE, launchInTerminal |-> FALSE, supportsAdmin |-> <<>>,
     launchArgs |-> <<>>,
     projectFilePatterns |-> <<<<<<"*",".","c","o","d","e","-","w","o","r","k","s","p","a","c","e">>>>>>],
    [id |-> <<"v","s","c","o","d","e","-","i","n","s","i","d","e","r","s">>,
     name |-> <<"V","S"," ","C","o","d","e"," ","I","n","s","i","d","e","r","s">>,
     executable |-> <<"c","o","d","e","-","i","n","s","i","d","e","r","s">>,
     versionArgs |-> <<>>, updateCommand |-> <<>>,
     enabled |-> FALSE, launchInTerminal |-> FALSE, supportsAdmin |-> <<>>,
     launchArgs |-> <<>>,
     projectFilePatterns |-> <<<<<<"*",".","c","o","d","e","-","w","o","r","k","s","p","a","c","e">>>>>>],
    [id |-> <<"v","s">>,
     name |-> <<"V","i","s","u","a","l"," ","S","t","u","d","i","o">>,
     executable |-> <<"d","e","v","e","n","v">>,
     versionArgs |-> <<>>, updateCommand |-> <<>>,
     enabled |-> FALSE, launchInTerminal |-> FALSE, supportsAdmin |-> <<>>,
     launchArgs |-> <<>>,
     projectFilePatterns |-> <<<<<<"*",".","s","l","n","x">>, <<"*",".","s","l","n">>>>>>],
    [id |-> <<"r","i","d","e","r">>,
     name |-> <<"R","i","d","e","r">>,
     executable |-> <<"r","i","d","e","r">>,
     versionArgs |-> <<>>, updateCommand |-> <<>>,
     enabled |-> TRUE, launchInTerminal |-> FALSE, supportsAdmin |-> <<>>,
     launchArgs |-> <<>>,
     projectFilePatterns |-> <<<<<<"*",".","s","l","n","x">>, <<"*",".","s","l","n">>>>>>],
    [id |-> <<"i","d","e","a">>,
     name |-> <<"I","n","t","e","l","l","i","J"," ","I","D","E","A">>,
     executable |-> <<"i","d","e","a">>,
     versionArgs |-> <<>>, updateCommand |-> <<>>,
     enabled |-> TRUE, launchInTerminal |-> FALSE, supportsAdmin |-> <<>>,
     launchArgs |-> <<>>,
     projectFilePatterns |-> <<>>],
    [id |-> <<"w","e","b","s","t","o","r","m">>,
     name |-> <<"W","e","b","S","t","o","r","m">>,
     executable |-> <<"w","e","b","s","t","o","r","m">>,
     versionArgs |-> <<>>, updateCommand |-> <<>>,
     enabled |-> TRUE, launchInTerminal |-> FALSE, supportsAdmin |-> <<>>,
     launchArgs |-> <<>>,
     projectFilePatterns |-> <<>>],
    [id |-> <<"p","y","c","h","a","r","m">>,
     name |-> <<"P","y","C","h","a","r","m">>,
     executable |-> <<"p","y","c","h","a","r","m">>,
     versionArgs |-> <<>>, updateCommand |-> <<>>,
     enabled |-> FALSE, launchInTerminal |-> FALSE, supportsAdmin |-> <<>>,
     launchArgs |-> <<>>,
     projectFilePatterns |-> <<>>],
    [id |-> <<"g","o","l","a","n","d">>,
     name |-> <<"G","o","L","a","n","d">>,
     executable |-> <<"g","o","l","a","n","d">>,
     versionArgs |-> <<>>, updateCommand |-> <<>>,
     enabled |-> FALSE, launchInTerminal |-> FALSE, supportsAdmin |-> <<>>,
     launchArgs |-> <<>>,
     projectFilePatterns |-> <<>>],
    [id |-> <<"c","l","i","o","n">>,
     name |-> <<"C","L","i","o","n">>,
     executable |-> <<"c","l","i","o","n">>,
     versionArgs |-> <<>>, updateCommand |-> <<>>,
     enabled |-> FALSE, launchInTerminal |-> FALSE, supportsAdmin |-> <<>>,
     launchArgs |-> <<>>,
     projectFilePatterns |-> <<>>],
    [id |-> <<"p","h","p","s","t","o","r","m">>,
     name |-> <<"P","h","p","S","t","o","r","m">>,
     executable |-> <<"p","h","p","s","t","o","r","m">>,
     versionArgs |-> <<>>, updateCommand |-> <<>>,
     enabled |-> FALSE, launchInTerminal |-> FALSE, supportsAdmin |-> <<>>,
     launchArgs |-> <<>>,
     projectFilePatterns |-> <<>>],
    [id |-> <<"r","u","b","y","m","i","n","e">>,
     name |-> <<"R","u","b","y","M","i","n","e">>,
     executable |-> <<"r","u","b","y","m","i","n","e">>,
     versionArgs |-> <<>>, updateCommand |-> <<>>,
     enabled |-> FALSE, launchInTerminal |-> FALSE, supportsAdmin |-> <<>>,
     launchArgs |-> <<>>,
     projectFilePatterns |-> <<>>],
    [id |-> <<"d","a","t","a","g","r","i","p">>,
     name |-> <<"D","a","t","a","G","r","i","p">>,
     executable |-> <<"d","a","t","a","g","r","i","p">>,
     versionArgs |-> <<>>, updateCommand |-> <<>>,
     enabled |-> TRUE, launchInTerminal |-> FALSE, supportsAdmin |-> <<>>,
     launchArgs |-> <<>>,
     projectFilePatterns |-> <<>>],
    [id |-> <<"f","l","e","e","t">>,
     name |-> <<"F","l","e","e","t">>,
     executable |-> <<"f","l","e","e","t">>,
     versionArgs |-> <<>>, updateCommand |-> <<>>,
     enabled |-> FALSE, launchInTerminal |-> FALSE, supportsAdmin |-> <<>>,
     launchArgs |-> <<>>,
     projectFilePatterns |-> <<>>],
    [id |-> <<"a","q","u","a">>,
     name |-> <<"A","q","u","a">>,
     executable |-> <<"a","q","u","a">>,
     versionArgs |-> <<>>, updateCommand |-> <<>>,
     enabled |-> FALSE, launchInTerminal |-> FALSE, supportsAdmin |-> <<>>,
     launchArgs |-> <<>>,
     projectFilePatterns |-> <<>>],
    [id |-> <<"r","u","s","t","r","o","v","e","r">>,
     name |-> <<"R","u","s","t","R","o","v","e","r">>,
     executable |-> <<"r","u","s","t","r","o","v","e","r">>,
     versionArgs |-> <<>>, updateCommand |-> <<>>,
     enabled |-> FALSE, launchInTerminal |-> FALSE, supportsAdmin |-> <<>>,
     launchArgs |-> <<>>,
     projectFilePatterns |-> <<>>],
    [id |-> <<"t","e","r","m","i","n","a","l">>,
     name |-> <<"W","i","n","d","o","w","s"," ","T","e","r","m","i","n","a","l">>,
     executable |-> <<"w","t">>,
     versionArgs |-> <<>>, updateCommand |-> <<>>,
     enabled |-> TRUE, launchInTerminal |-> FALSE, supportsAdmin |-> <<>>,
     launchArgs |-> <<<<"-","d">>>>,
     projectFilePatterns |-> <<>>],
    [id |-> <<"e","x","p","l","o","r","e","r">>,
     name |-> <<"E","x","p","l","o","r","e","r">>,
     executable |-> <<"e","x","p","l","o","r","e","r">>,
     versionArgs |-> <<>>, updateCommand |-> <<>>,
     enabled |-> TRUE, launchInTerminal |-> FALSE, supportsAdmin |-> <<>>,
     launchArgs |-> <<>>,
     projectFilePatterns |-> <<>>]
>>

\* SettingsSchema accepts v: both properties are strings with defaults
SettingsSchemaOk(v) ==
    /\ v.t = "obj"
    /\ OptStrOk(v, "defaultCodePath")
    /\ OptStrOk(v, "defaultTool")

DEFAULT_SETTINGS ==
    [defaultCodePath |-> <<"D",":","/","c","o","d","e","/","g","i","t">>,
     defaultTool |-> <<"c","l","a","u","d","e">>]

SettingsSchemaParse(v) ==
    [defaultCodePath |-> IF Has(v, "defaultCodePath") THEN v.fields["defaultCodePath"].s
                         ELSE <<"D",":","/","c","o","d","e","/","g","i","t">>,
     defaultTool |-> IF Has(v, "defaultTool") THEN v.fields["defaultTool"].s
                     ELSE <<"c","l","a","u","d","e">>]

SettingsJson(s) ==
    JObj([defaultCodePath |-> JStr(s.defaultCodePath),
          defaultTool |-> JStr(s.defaultTool)])

----------------------------------------------------------------------------
(* Config store: tools and settings *)

loadToolsFailed == Msg("error", "Error loading tools.json", Undefined)

loadTools(d) ==
    IF ~existsSync(d, TOOLS_PATH) THEN Returns(DEFAULT_TOOLS, d)
    ELSE LET data == JSONparse(d.files[TOOLS_PATH]) IN
         IF data.ok /\ ToolsConfigSchemaOk(data.v)
         THEN LET parsed == ToolsConfigSchemaParse(data.v) IN
              Returns(IF Len(parsed) > 0 THEN parsed ELSE DEFAULT_TOOLS, d)
         ELSE [Returns(DEFAULT_TOOLS, d) EXCEPT !.logged = <<loadToolsFailed>>]

saveTools(d, ts) ==
    LET w == writeFileSync(ensureConfigDir(d), TOOLS_PATH, ToolsJson(ts))
    IN  IF w.ok
        THEN [Returns(Undefined, w.disk) EXCEPT !.writes = <<"saveTools">>]
        ELSE Throws(w.disk)

loadSettings(d) ==
    IF ~existsSync(d, SETTINGS_PATH) THEN Returns(DEFAULT_SETTINGS, d)
    ELSE LET data == JSONparse(d.files[SETTINGS_PATH]) IN
         IF data.ok /\ SettingsSchemaOk(data.v)
         THEN Returns(SettingsSchemaParse(data.v), d)
         ELSE Returns(DEFAULT_SETTINGS, d)

saveSettings(d, s) ==
    LET w == writeFileSync(ensureConfigDir(d), SETTINGS_PATH, SettingsJson(s))
    IN  IF w.ok
        THEN [Returns(Undefined, w.disk) EXCEPT !.writes = <<"saveSettings">>]
        ELSE Throws(w.disk)

----------------------------------------------------------------------------
(* Launcher and launch flows *)

\* path.join(root, rel) for a relative path without ".." segments
join(root, rel) == IF rel = <<".">> THEN root ELSE root \o <<"/">> \o rel

\* the commands and arguments launcher.ts spells out
GSUDO == <<"g","s","u","d","o">>
WT == <<"w","t">>
PWSH == <<"p","w","s","h">>
EXPLORER == <<"e","x","p","l","o","r","e","r">>
GIT_BASH == <<"g","i","t","-","b","a","s","h">>
ArgD == <<"-","d">>
ArgNoExit == <<"-","N","o","E","x","i","t">>
ArgCommand == <<"-","C","o","m","m","a","n","d">>
ArgCd == <<"-","-","c","d","=">>

\* the events of a child process: close with its exit code, or error
Closed(code) == [ev |-> "close", code |-> code]
Errored == [ev |-> "error", code |-> 0 - 1]

WINGET == <<"w","i","n","g","e","t">>
WingetArgs ==
    <<<<"i","n","s","t","a","l","l">>, <<"g","e","r","a","r","d","o","g",".","g","s","u","d","o">>, <<"-","-","a","c","c","e","p","t","-","s","o","u","r","c","e","-","a","g","r","e","e","m","e","n","t","s">>, <<"-","-","a","c","c","e","p","t","-","p","a","c","k","a","g","e","-","a","g","r","e","e","m","e","n","t","s">>>>

\* a machine on which the workspace is empty and every spawn succeeds
QuietHost ==
    [entries |-> <<>>, results |-> <<"ok", "ok">>, gsudo |-> TRUE, winget |-> <<Closed(0)>>]

\* fast-glob's match of one pattern against a file name: "*" stands for any
\* run of characters, and does not match a leading dot
globMatch(pattern, name) ==
    IF pattern # <<>> /\ Head(pattern) = "*"
    THEN LET suffix == Tail(pattern) IN
         /\ Len(name) >= Len(suffix)
         /\ name # <<>> /\ Head(name) # "."
         /\ SubSeq(name, Len(name) - Len(suffix) + 1, Len(name)) = suffix
    ELSE name = pattern

\* a findProjectFile that yields the last file found
findLastProjectFile(workspacePath, patterns) ==
    LET hit(e) == /\ e.file /\ Len(e.path) = 1
                  /\ \E i \in DOMAIN patterns : globMatch(patterns[i], e.path[1])
        files == SelectSeq(host.entries, hit)
    IN  IF Len(files) > 0
        THEN <<workspacePath \o <<"/">> \o files[Len(files)].path[1]>>
        ELSE <<>>

\* findProjectFile(workspacePath, patterns): fg(patterns, { cwd, absolute,
\* onlyFiles, deep: 1 }) yields, in the order the directory is read, the
\* files directly in the workspace whose name matches a pattern; the first
\* one is returned (<<>>: null)
findProjectFile(workspacePath, patterns) ==
    LET hit(e) == /\ e.file /\ Len(e.path) = 1
                  /\ \E i \in DOMAIN patterns : globMatch(patterns[i], e.path[1])
        files == SelectSeq(host.entries, hit)
    IN  IF Len(files) > 0
        THEN <<workspacePath \o <<"/">> \o files[1].path[1]>>
        ELSE <<>>

\* what the k-th spawn of a launch does on this host: it starts the child
\* ("ok"), throws, or returns a child that emits 'error' on the next tick
\* ("emits", as for a command that is not found)
spawnResult(k) == host.results[k]

\* a spawnDetached that leaves the child attached to the launcher's streams
\* and listens for its exit
spawnAttached(command, args, cwd) ==
    [command |-> command, args |-> args, cwd |-> cwd,
     detached |-> FALSE, stdio |-> "inherit", windowsHide |-> TRUE,
     listeners |-> {"exit"}, unref |-> FALSE]

\* spawnDetached(command, args, cwd): the spawn call it makes, the
\* listeners it puts on the child, and whether it calls child.unref()
spawnDetached(command, args, cwd) ==
    [command |-> command, args |-> args, cwd |-> cwd,
     detached |-> TRUE, stdio |-> "ignore", windowsHide |-> TRUE,
     listeners |-> {}, unref |-> TRUE]

\* tool.requiresAdmin: undefined, so falsy, on a tool that has no such property
requiresAdmin(tool) ==
    IF "requiresAdmin" \in DOMAIN tool THEN tool.requiresAdmin ELSE FALSE

\* the path launchTool resolves before it spawns
resolveTarget(tool, workspacePath) ==
    IF tool.projectFilePatterns # <<>> /\ Len(tool.projectFilePatterns[1]) > 0
    THEN LET projectFile == findProjectFile(workspacePath, tool.projectFilePatterns[1]) IN
         IF projectFile # <<>> THEN projectFile[1] ELSE workspacePath
    ELSE workspacePath

\* const args = []; if (tool.launchArgs) args.push(tool.launchArgs);
\* args.push(targetPath)
directArgs(tool, targetPath) ==
    (IF tool.launchArgs # <<>> /\ tool.launchArgs[1] # <<>>
     THEN <<tool.launchArgs[1]>> ELSE <<>>) \o <<targetPath>>

\* a dispatch that looks at the tool id before launchInTerminal
primarySpawnByIdFirst(tool, workspacePath, targetPath) ==
    IF tool.id = EXPLORER
    THEN spawnDetached(EXPLORER, <<workspacePath>>, workspacePath)
    ELSE IF tool.id = <<"t","e","r","m","i","n","a","l">>
    THEN spawnDetached(WT, <<ArgD, workspacePath>>, workspacePath)
    ELSE IF tool.launchInTerminal
    THEN spawnDetached(WT, <<ArgD, workspacePath, PWSH, ArgNoExit, ArgCommand,
                             tool.executable>>, workspacePath)
    ELSE spawnDetached(tool.executable, directArgs(tool, targetPath), workspacePath)

\* the spawn in launchTool's try block
primarySpawn(tool, workspacePath, targetPath) ==
    IF tool.launchInTerminal
    THEN IF requiresAdmin(tool)
         THEN spawnDetached(GSUDO, <<WT, ArgD, workspacePath, PWSH, ArgNoExit,
                                     ArgCommand, tool.executable>>, workspacePath)
         ELSE spawnDetached(WT, <<ArgD, workspacePath, PWSH, ArgNoExit, ArgCommand,
                                  tool.executable>>, workspacePath)
    ELSE IF tool.id = EXPLORER
    THEN spawnDetached(EXPLORER, <<workspacePath>>, workspacePath)
    ELSE IF tool.id = <<"t","e","r","m","i","n","a","l">>
    THEN spawnDetached(WT, <<ArgD, workspacePath>>, workspacePath)
    ELSE IF tool.id = <<"g","i","t","b","a","s","h">>
    THEN spawnDetached(GIT_BASH, <<ArgCd \o workspacePath>>, workspacePath)
    ELSE spawnDetached(tool.executable, directArgs(tool, targetPath), workspacePath)

\* the spawn in launchTool's catch block
fallbackSpawn(workspacePath) ==
    spawnDetached(WT, <<ArgD, workspacePath, PWSH, ArgNoExit>>, workspacePath)

\* await p.text({ message: "Press Enter to continue..." }), answered
Acknowledged == Msg("prompt", "Press Enter to continue...", Undefined)

\* the k-th spawn call of a launch, made after n messages were logged,
\* with what it did
Issued(k, n, call) == [result |-> spawnResult(k), at |-> n] @@ call

\* launchTool(tool, workspacePath).  tool.name is read before the try
\* block, so an undefined tool raises TypeError.  A spawn that throws is
\* caught; a child that emits 'error' has no listener, so the event
\* becomes an uncaught exception while launchTool awaits.
launchTool(d, tool, workspacePath) ==
    LET base == [Returns(Undefined, d) EXCEPT
                    !.launched = <<[tool |-> tool, workspacePath |-> workspacePath]>>]
    IN
    IF tool = Undefined THEN [base EXCEPT !.threw = TRUE]
    ELSE
    LET targetPath == resolveTarget(tool, workspacePath)
        before == <<Msg("info", "Launching", tool.name)>> \o
                  (IF targetPath # workspacePath
                   THEN <<Msg("info", "Found project file", targetPath)>> ELSE <<>>)
        primary == Issued(1, Len(before), primarySpawn(tool, workspacePath, targetPath))
        failed == before \o <<Msg("error", "Failed to launch", tool.name)>>
        trying == failed \o <<Msg("warn", "Trying fallback launch...", Undefined)>>
        fallback == Issued(2, Len(trying), fallbackSpawn(workspacePath))
    IN
    CASE primary.result = "ok" ->
            [base EXCEPT !.spawned = <<primary>>,
                         !.logged = before \o <<Msg("success", "launched", tool.name)>>]
      [] primary.result = "emits" ->
            [base EXCEPT !.ret = Uncaught, !.threw = TRUE,
                         !.spawned = <<primary>>, !.logged = before]
      [] primary.result = "throws" /\ ~tool.launchInTerminal ->
            [base EXCEPT !.spawned = <<primary>>,
                         !.logged = failed \o <<Acknowledged>>]
      [] primary.result = "throws" /\ tool.launchInTerminal ->
            CASE fallback.result = "ok" ->
                    [base EXCEPT !.spawned = <<primary, fallback>>,
                                 !.logged = trying \o <<Acknowledged>>]
              [] fallback.result = "throws" ->
                    [base EXCEPT !.spawned = <<primary, fallback>>,
                                 !.logged = trying \o
                                    <<Msg("error", "Fallback failed", Undefined),
                                      Acknowledged>>]
              [] fallback.result = "emits" ->
                    [base EXCEPT !.ret = Uncaught, !.threw = TRUE,
                                 !.spawned = <<primary, fallback>>,
                                 !.logged = trying]

\* a tool list that is not filtered
everyTool(ts) == ts

\* loadTools().filter((t) => t.enabled)
enabledTools(ts) ==
    LET IsEnabled(t) == t.enabled IN SelectSeq(ts, IsEnabled)

\* the project quickLaunch resolves: projects.find(exact || includes)
findProject(ps, projectQuery) ==
    LET q == toLowerCase(projectQuery) IN
    findFirst(ps, {i \in DOMAIN ps :
                      \/ toLowerCase(ps[i].name) = q
                      \/ includes(toLowerCase(ps[i].name), q)})

\* the tool quickLaunch resolves for a non-empty toolId:
\* tools.find(id === toolId || name includes toolId)
findTool(tools, toolId) ==
    findFirst(tools, {i \in DOMAIN tools :
                         \/ tools[i].id = toolId
                         \/ includes(toLowerCase(tools[i].name), toLowerCase(toolId))})

ProjectNames(ps) == [i \in DOMAIN ps |-> ps[i].name]
ToolLabels(ts) == [i \in DOMAIN ts |-> [id |-> ts[i].id, name |-> ts[i].name]]

\* addRecent(name) then launchTool(tool, path), after `sofar`
recordAndLaunch(sofar, name, tool, path) ==
    LET r == Then(sofar, addRecent(sofar.disk, name)) IN
    IF r.threw THEN r
    ELSE Then(r, launchTool(r.disk, tool, path))

\* quickLaunch(projects, projectQuery, toolId?): toolId is <<>> when not
\* given; dirs is the set of paths for which existsSync is true
quickLaunch(d, ps, projectQuery, toolId, dirs) ==
    LET project == findProject(ps, projectQuery) IN
    IF project = <<>>
    THEN [Returns(Undefined, d) EXCEPT
             !.logged = <<Msg("error", "Project not found", projectQuery),
                          Msg("info", "Available", ProjectNames(ps))>>]
    ELSE IF project[1].path \notin dirs
    THEN [Returns(Undefined, d) EXCEPT
             !.logged = <<Msg("error", "Project path does not exist", project[1].path)>>]
    ELSE LET loaded == loadTools(d)
             tools == enabledTools(loaded.ret)
         IN  IF toolId # <<>> /\ toolId[1] # <<>>
             THEN LET tool == findTool(tools, toolId[1]) IN
                  IF tool = <<>>
                  THEN [loaded EXCEPT
                           !.ret = Undefined,
                           !.logged = @ \o <<Msg("error", "Tool not found", toolId[1]),
                                             Msg("info", "Available", ToolLabels(tools))>>]
                  ELSE recordAndLaunch(loaded, project[1].name, tool[1], project[1].path)
             ELSE recordAndLaunch(loaded, project[1].name,
                                  IF tools = <<>> THEN Undefined ELSE tools[1],
                                  project[1].path)

\* recents.indexOf / recents.includes exist on arrays and strings only
canSearch(recents) == recents.t \in {"arr", "str"}

\* launching the selected tools one after the other
RECURSIVE launchAll(_, _, _)
launchAll(sofar, tools, path) ==
    IF tools = <<>> \/ sofar.threw THEN sofar
    ELSE launchAll(Then(sofar, launchTool(sofar.disk, Head(tools), path)),
                   Tail(tools), path)

\* launchFlow(projects).  The user's answers: pick.project is the project
\* chosen in the menu (0: cancelled), pick.ws the 1-based workspace chosen
\* (0: cancelled), pick.tools the indices chosen among the tools offered,
\* in order (empty: cancelled, since the multiselect requires one)
launchFlow(d, ps, dirs, pick) ==
    IF ps = <<>>
    THEN [Returns(Undefined, d) EXCEPT
             !.logged = <<Msg("note", "No projects found", Undefined)>>]
    ELSE LET recents == loadRecents(d) IN
    IF ~canSearch(recents.ret) THEN Throws(d)
    ELSE IF pick.project = 0 THEN Returns(Undefined, d)
    ELSE LET selectedProject == ps[pick.project] IN
    IF selectedProject.path \notin dirs
    THEN [Returns(Undefined, d) EXCEPT
             !.logged = <<Msg("error", "Project path does not exist",
                              selectedProject.path)>>]
    ELSE IF Len(selectedProject.workspaces) > 1 /\ pick.ws = 0
    THEN Returns(Undefined, d)
    ELSE LET workspacePath ==
                 IF Len(selectedProject.workspaces) > 1
                 THEN join(selectedProject.path,
                           selectedProject.workspaces[pick.ws].path)
                 ELSE selectedProject.path
             loaded == loadTools(d)
             tools == enabledTools(loaded.ret)
         IN  IF tools = <<>>
             THEN [loaded EXCEPT
                      !.ret = Undefined,
                      !.logged = @ \o <<Msg("note", "No tools enabled", Undefined)>>]
             ELSE IF pick.tools = <<>> THEN [loaded EXCEPT !.ret = Undefined]
             ELSE LET r == Then(loaded, addRecent(loaded.disk, selectedProject.name)) IN
                  IF r.threw THEN r
                  ELSE launchAll(r, [i \in DOMAIN pick.tools |-> tools[pick.tools[i]]],
                                 workspacePath)

----------------------------------------------------------------------------
(* Manage flow: workspaces of one project *)

\* one pass of the manageWorkspaces loop over allProjects[sel].  The user's
\* answers: act.kind is the menu entry ("back", "add", "edit"), act.wsIndex
\* the 0-based workspace of an "edit-<i>" entry, act.wsAction the entry of
\* the workspace menu, act.text the text typed (<<>>: cancelled; for "add"
\* the name typed, act.path the folder browsed, <<>>: none) and
\* act.confirmed the answer to the delete confirmation ("true", "false" or
\* "cancel").
\* Yields the projects array after the pass, the outcome of its calls, and
\* whether the loop returned.
\* a splice that removes the entry before wsIndex
spliceBefore(workspaces, wsIndex) == splice1(workspaces, wsIndex - 1)

\* project.workspaces.splice(wsIndex, 1), wsIndex counted from 0
spliceWorkspace(workspaces, wsIndex) == splice1(workspaces, wsIndex)

manageWorkspaces(d, allProjects, sel, act) ==
    LET project == allProjects[sel]
        same == [projects |-> allProjects, out |-> Returns(Undefined, d), done |-> FALSE]
        saved(ps, text) ==
            [projects |-> ps,
             out |-> LET s == saveProjects(d, ps) IN
                     IF s.threw THEN s
                     ELSE [s EXCEPT !.logged = <<Msg("success", text, Undefined)>>],
             done |-> saveProjects(d, ps).threw]
    IN
    CASE act.kind = "back" -> [same EXCEPT !.done = TRUE]
      [] act.kind = "add" ->
            IF act.text = <<>> \/ act.text[1] = <<>> \/ act.path = <<>> THEN same
            ELSE saved([allProjects EXCEPT ![sel].workspaces =
                           Append(@, [name |-> act.text[1], path |-> act.path[1]])],
                       "Workspace added")
      [] act.kind = "edit" /\ act.wsAction = "back" -> same
      [] act.kind = "edit" /\ act.wsAction = "rename" ->
            IF act.text = <<>> \/ act.text[1] = <<>> THEN same
            ELSE saved([allProjects EXCEPT
                           ![sel].workspaces[act.wsIndex + 1].name = act.text[1]],
                       "Workspace renamed")
      [] act.kind = "edit" /\ act.wsAction = "path" ->
            IF act.text = <<>> THEN same
            ELSE saved([allProjects EXCEPT
                           ![sel].workspaces[act.wsIndex + 1].path =
                               IF act.text[1] = <<>> THEN <<".">> ELSE act.text[1]],
                       "Workspace path updated")
      [] act.kind = "edit" /\ act.wsAction = "delete" ->
            IF act.wsIndex = 0
            THEN [same EXCEPT !.out.logged =
                     <<Msg("warn", "Cannot delete the Root workspace", Undefined)>>]
            ELSE IF act.confirmed = "true"
            THEN saved([allProjects EXCEPT
                           ![sel].workspaces = spliceWorkspace(@, act.wsIndex)],
                       "Workspace deleted")
            ELSE same

\* the place of a character in the collation of localeCompare: punctuation
\* before letters, letters in alphabetical order
charRank(c) ==
    IF \E i \in DOMAIN LowerChars : LowerChars[i] = c
    THEN CHOOSE i \in DOMAIN LowerChars : LowerChars[i] = c
    ELSE 0

\* a.localeCompare(b) for lower-case texts: negative, 0 or positive
RECURSIVE localeCompare(_, _)
localeCompare(a, b) ==
    IF a = <<>> /\ b = <<>> THEN 0
    ELSE IF a = <<>> THEN 0 - 1
    ELSE IF b = <<>> THEN 1
    ELSE IF charRank(Head(a)) # charRank(Head(b))
    THEN charRank(Head(a)) - charRank(Head(b))
    ELSE localeCompare(Tail(a), Tail(b))

\* the original indices of the projects in the order of the menu: sorted by
\* lower-case name, projects of equal names in stored order
sortedWithIndex(ps) ==
    LET before(i, j) ==
            LET c == localeCompare(toLowerCase(ps[i].name), toLowerCase(ps[j].name))
            IN  c < 0 \/ (c = 0 /\ i < j)
    IN  [k \in DOMAIN ps |->
            CHOOSE i \in DOMAIN ps :
                Cardinality({j \in DOMAIN ps : before(j, i)}) = k - 1]

\* a menu whose values are the positions in the menu
projectMenuByPosition(ps) ==
    [k \in DOMAIN ps |-> [label |-> ps[sortedWithIndex(ps)[k]].name, value |-> k]]

\* the options of "Select a project": the label shown and the value the
\* selection yields, the original index
projectMenu(ps) ==
    [k \in DOMAIN ps |->
        [label |-> ps[sortedWithIndex(ps)[k]].name, value |-> sortedWithIndex(ps)[k]]]


\* flows/manage.ts manageFlow(projects) up to the point where it returns or
\* enters manageWorkspaces.  choice.project is the place in the menu of the
\* project picked (0: cancelled), choice.action the entry of the project menu ("cancel"
\* when cancelled), choice.text the text typed, which the prompt validates
\* (<<>>: cancelled), choice.confirmed the answer to the delete confirmation.
\* Yields the projects array afterwards, the outcome of the calls, and the
\* project manageWorkspaces was entered with (0: none).
manageFlow(d, ps, dirs, choice) ==
    LET same == [projects |-> ps, out |-> Returns(Undefined, d), selected |-> 0]
        saved(list, text) ==
            [projects |-> list,
             out |-> LET s == saveProjects(d, list) IN
                     IF s.threw THEN s
                     ELSE [s EXCEPT !.logged = <<Msg("success", text, Undefined)>>],
             selected |-> 0]
        index == IF choice.project = 0 THEN 0
                 ELSE projectMenu(ps)[choice.project].value
    IN
    IF ps = <<>>
    THEN [same EXCEPT !.out.logged = <<Msg("note", "No projects to manage.", Undefined)>>]
    ELSE IF index = 0 \/ choice.action \in {"cancel", "back"} THEN same
    ELSE CASE choice.action = "edit-name" ->
                IF choice.text = <<>> \/ choice.text[1] = <<>> THEN same
                ELSE saved([ps EXCEPT ![index].name = choice.text[1]],
                           "Project renamed")
           [] choice.action = "edit-path" ->
                IF choice.text = <<>> \/ choice.text[1] \notin dirs THEN same
                ELSE saved([ps EXCEPT ![index].path = choice.text[1]],
                           "Project path updated")
           [] choice.action = "edit-workspaces" ->
                [same EXCEPT !.selected = index]
           [] choice.action = "delete" ->
                IF choice.confirmed = "true"
                THEN saved(splice1(ps, index - 1), "Project deleted")
                ELSE same

----------------------------------------------------------------------------
(* Adding a project: addFlow *)

\* String.prototype.toUpperCase, one character
UpperChar(c) ==
    IF \E i \in DOMAIN LowerChars : LowerChars[i] = c
    THEN UpperChars[CHOOSE i \in DOMAIN LowerChars : LowerChars[i] = c]
    ELSE c

\* ws.charAt(0).toUpperCase() + ws.slice(1)
capitalize(ws) == IF ws = <<>> THEN ws ELSE <<UpperChar(Head(ws))>> \o Tail(ws)

potentialWorkspaces ==
    <<<<"f","r","o","n","t","e","n","d">>, <<"b","a","c","k","e","n","d">>, <<"w","e","b">>, <<"a","p","i">>,
      <<"a","p","p">>, <<"a","p","p","s">>, <<"p","a","c","k","a","g","e","s">>, <<"s","r","c">>>>

\* addFlow(projects).  entry.name is the text typed for the name and
\* entry.path the directory browsed to or typed, which the prompts accept
\* only if it exists (<<>>: cancelled); entry.addDetected answers "Add as
\* workspaces?", entry.more are the sub-workspaces added by hand.  Yields
\* the projects array afterwards and the outcome of the calls.
addFlow(d, ps, dirs, entry) ==
    LET same == [projects |-> ps, out |-> Returns(Undefined, d)] IN
    IF entry.name = <<>> \/ entry.path = <<>> \/ entry.path[1] \notin dirs
    THEN same
    ELSE LET rootPath == entry.path[1]
             Exists(ws) == join(rootPath, ws) \in dirs
             existingWorkspaces == SelectSeq(potentialWorkspaces, Exists)
             detected ==
                 IF existingWorkspaces # <<>> /\ entry.addDetected = "true"
                 THEN [i \in DOMAIN existingWorkspaces |->
                          [name |-> capitalize(existingWorkspaces[i]),
                           path |-> existingWorkspaces[i]]]
                 ELSE <<>>
             newProject ==
                 [name |-> entry.name[1], path |-> rootPath,
                  workspaces |-> DefaultWorkspaces \o detected \o entry.more,
                  command |-> <<>>]
             list == Append(ps, newProject)
             s == saveProjects(d, list)
             notes == [i \in DOMAIN entry.more |->
                          Msg("success", "Added workspace", entry.more[i].name)]
         IN  [projects |-> list,
              out |-> IF s.threw THEN [s EXCEPT !.logged = notes]
                      ELSE [s EXCEPT !.logged =
                               notes \o <<Msg("note", "Project added successfully!",
                                              newProject.name)>>]]

----------------------------------------------------------------------------
(* The command line: main() *)

\* process.exit(code), or the process ending with that code
Exit(code) == [t |-> "exit", code |-> code]

\* main went on to the interactive menu
Menu == [t |-> "menu"]

HelpFlags == {<<"-","-","h","e","l","p">>, <<"-","h">>}

startsWith(str, c) == str # <<>> /\ Head(str) = c

\* a synchronous or awaited child: spawnSync("where", ...) and the winget
\* child of installGsudo
Child(command, args, stdio, listeners) ==
    [command |-> command, args |-> args, cwd |-> Undefined, detached |-> FALSE,
     stdio |-> stdio, windowsHide |-> FALSE, listeners |-> listeners,
     unref |-> FALSE, result |-> "ok", at |-> 0]

\* commandExists(command): `where` exits with 0; the only command the
\* program asks for is gsudo
commandExists(d, command) ==
    [Returns(command = GSUDO /\ host.gsudo, d) EXCEPT
        !.spawned = <<Child(<<"w","h","e","r","e">>, <<command>>, "pipe", {})>>]

\* a checkGsudo that asks for every tool, enabled or not
checkGsudoAnyTool(d) ==
    LET loaded == loadTools(d)
        hasAdminTools ==
            \E i \in DOMAIN loaded.ret : loaded.ret[i].supportsAdmin = <<TRUE>>
    IN  IF ~hasAdminTools
        THEN [loaded EXCEPT !.ret = [needed |-> FALSE, available |-> FALSE]]
        ELSE LET probe == Then(loaded, commandExists(d, GSUDO))
             IN  [probe EXCEPT !.ret = [needed |-> TRUE, available |-> probe.ret]]

\* checkGsudo(): { needed, available }
checkGsudo(d) ==
    LET loaded == loadTools(d)
        hasAdminTools ==
            \E i \in DOMAIN loaded.ret :
                loaded.ret[i].enabled /\ loaded.ret[i].supportsAdmin = <<TRUE>>
    IN  IF ~hasAdminTools
        THEN [loaded EXCEPT !.ret = [needed |-> FALSE, available |-> FALSE]]
        ELSE LET probe == Then(loaded, commandExists(d, GSUDO))
             IN  [probe EXCEPT !.ret = [needed |-> TRUE, available |-> probe.ret]]

\* the Promise of installGsudo after the child's events, in order: the
\* first resolve settles it, a later one changes nothing
RECURSIVE settle(_, _)
settle(promise, events) ==
    IF events = <<>> THEN promise
    ELSE LET value == events[1].ev = "close" /\ events[1].code = 0
             next == IF promise.settled THEN [promise EXCEPT !.calls = @ + 1]
                     ELSE [settled |-> TRUE, value |-> value, calls |-> promise.calls + 1]
         IN  settle(next, Tail(events))

\* an installGsudo that counts any close as a success
installGsudoAnyClose(d) ==
    LET promise == settle([settled |-> FALSE, value |-> FALSE, calls |-> 0],
                          [i \in DOMAIN host.winget |->
                              IF host.winget[i].ev = "close" THEN Closed(0)
                              ELSE host.winget[i]])
    IN  [Returns(promise.value, d) EXCEPT
            !.spawned = <<Child(WINGET, WingetArgs, "inherit", {"close", "error"})>>]

\* installGsudo(): spawns winget and resolves on its close (code === 0) or
\* error (false) event
installGsudo(d) ==
    LET promise == settle([settled |-> FALSE, value |-> FALSE, calls |-> 0], host.winget)
    IN  [Returns(promise.value, d) EXCEPT
            !.spawned = <<Child(WINGET, WingetArgs, "inherit", {"close", "error"})>>]

\* checkAndInstallGsudo(); answer is the reply to "install gsudo via winget?"
checkAndInstallGsudo(d, answer) ==
    LET check == checkGsudo(d) IN
    IF ~check.ret.needed \/ check.ret.available THEN [check EXCEPT !.ret = Undefined]
    ELSE LET warned == [check EXCEPT
                           !.ret = Undefined,
                           !.logged = @ \o <<Msg("warn", "gsudo is not installed", Undefined)>>]
             asked == [warned EXCEPT
                          !.logged = @ \o <<Msg("prompt", "Would you like to install gsudo via winget?", answer)>>]
         IN  IF answer # "true"
             THEN [asked EXCEPT
                      !.logged = @ \o <<Msg("info", "You can install it later", Undefined),
                                        Msg("info", "Or disable admin requirement", Undefined)>>]
             ELSE LET installed == Then([asked EXCEPT
                                            !.logged = @ \o <<Msg("info", "Installing gsudo...", Undefined)>>],
                                        installGsudo(d))
                  IN  [installed EXCEPT
                          !.ret = Undefined,
                          !.logged = @ \o
                             (IF installed.ret
                              THEN <<Msg("success", "gsudo installed successfully!", Undefined),
                                     Msg("info", "You may need to restart your terminal", Undefined)>>
                              ELSE <<Msg("error", "Failed to install gsudo", Undefined),
                                     Msg("info", "Try manually", Undefined)>>)]

\* a main whose rejection handler ends the process with code 1
mainExitsOne(d, args, dirs, answer) ==
    IF \E i \in DOMAIN args : args[i] \in HelpFlags
    THEN [Returns(Exit(0), d) EXCEPT !.logged = <<Msg("log", "Usage", Undefined)>>]
    ELSE IF Len(args) > 0 /\ ~startsWith(args[1], "-")
    THEN LET loaded == loadProjects(d)
             given == Len(args) >= 2 /\ args[2] # <<>>
             settings == IF given THEN Returns(Undefined, d) ELSE loadSettings(d)
             toolId == IF given THEN args[2] ELSE settings.ret.defaultTool
             checked == Then(Then(loaded, settings), checkAndInstallGsudo(d, answer))
             run == Then(checked, quickLaunch(d, loaded.ret, args[1], <<toolId>>, dirs))
         IN  IF run.threw THEN [run EXCEPT !.ret = Exit(1)]
             ELSE [run EXCEPT !.ret = Exit(0)]
    ELSE [checkAndInstallGsudo(d, answer) EXCEPT !.ret = Menu]

\* main() with process.argv.slice(2) = args, up to process.exit or the
\* interactive menu.  A rejection of main() goes to main().catch, which
\* writes the error and lets the process end (code 0); an uncaught
\* exception ends the process with code 1.
main(d, args, dirs, answer) ==
    IF \E i \in DOMAIN args : args[i] \in HelpFlags
    THEN [Returns(Exit(0), d) EXCEPT !.logged = <<Msg("log", "Usage", Undefined)>>]
    ELSE IF Len(args) > 0 /\ ~startsWith(args[1], "-")
    THEN LET loaded == loadProjects(d)
             given == Len(args) >= 2 /\ args[2] # <<>>
             settings == IF given THEN Returns(Undefined, d) ELSE loadSettings(d)
             toolId == IF given THEN args[2] ELSE settings.ret.defaultTool
             checked == Then(Then(loaded, settings), checkAndInstallGsudo(d, answer))
             run == Then(checked, quickLaunch(d, loaded.ret, args[1], <<toolId>>, dirs))
         IN  IF run.ret = Uncaught THEN [run EXCEPT !.ret = Exit(1)]
             ELSE IF run.threw
             THEN [run EXCEPT !.ret = Exit(0), !.threw = FALSE,
                              !.logged = @ \o <<Msg("stderr", "Error", Undefined)>>]
             ELSE [run EXCEPT !.ret = Exit(0)]
    ELSE [checkAndInstallGsudo(d, answer) EXCEPT !.ret = Menu]

----------------------------------------------------------------------------
(* Inputs: names, file contents *)

\* the i-th of a pool of distinct one-letter project names
Letter(i) == <<LowerChars[i]>>

\* recents.json as addRecent leaves it: an array of strings
RecentsJson(names) == JArr([i \in DOMAIN names |-> JStr(names[i])])

\* v is a JSON array of strings
IsStringArray(v) == v.t = "arr" /\ \A i \in DOMAIN v.items : IsStr(v.items[i])

\* the names of a JSON array of strings
Names(v) == [i \in DOMAIN v.items |-> v.items[i].s]

\* the names 1..n in order
RECURSIVE Letters(_)
Letters(n) == IF n = 0 THEN <<>> ELSE Letters(n - 1) \o <<Letter(n)>>

\* sample values
ProjA ==
    [name |-> <<"a">>, path |-> <<"/","a">>,
     workspaces |-> DefaultWorkspaces, command |-> <<>>]
ProjB ==
    [name |-> <<"B">>, path |-> <<"/","b">>,
     workspaces |-> DefaultWorkspaces \o <<[name |-> <<"W">>, path |-> <<"w">>]>>,
     command |-> <<<<"r","u","n">>>>]
ToolX ==
    [id |-> <<"x">>, name |-> <<"X"," ","T","o","o","l">>, executable |-> <<"x">>,
     versionArgs |-> <<>>, updateCommand |-> <<>>,
     enabled |-> FALSE, launchInTerminal |-> FALSE, supportsAdmin |-> <<FALSE>>,
     launchArgs |-> <<>>, projectFilePatterns |-> <<>>]
ToolY ==
    [id |-> <<"y">>, name |-> <<"Y">>, executable |-> <<"y">>,
     versionArgs |-> <<<<"-","v">>>>, updateCommand |-> <<>>,
     enabled |-> TRUE, launchInTerminal |-> TRUE, supportsAdmin |-> <<TRUE>>,
     launchArgs |-> <<>>, projectFilePatterns |-> <<<<<<"*",".","s","l","n">>>>>>]
SettingsZ ==
    [defaultCodePath |-> <<"/","c">>, defaultTool |-> <<"y">>]

\* a tool entry of tools.json that has only the three required properties
BareToolJson ==
    JObj([id |-> JStr(<<"z">>), name |-> JStr(<<"Z">>), executable |-> JStr(<<"z">>)])

\* projects.json: absent, not JSON, JSON of the wrong shape, valid
ProjectsMalformed ==
    {Absent, NotJson, Json(JNull), Json(JObj(NoFields)), Json(JArr(<<JNum>>)),
     Json(JArr(<<JObj([name |-> JStr(<<"a">>)])>>))}
ProjectsValid ==
    {Json(JArr(<<>>)), Json(ProjectsJson(<<ProjA>>)),
     Json(JArr(<<JObj([name |-> JStr(<<"a">>), path |-> JStr(<<"/","a">>)])>>))}

ToolsMalformed ==
    {Absent, NotJson, Json(JNum), Json(JArr(<<JObj([id |-> JStr(<<"x">>)])>>)),
     Json(JArr(<<JObj([id |-> JStr(<<"z">>), name |-> JStr(<<"Z">>),
                       executable |-> JStr(<<"z">>), enabled |-> JStr(<<"n","o">>)])>>))}
ToolsValid ==
    {Json(JArr(<<>>)), Json(ToolsJson(<<ToolX, ToolY>>)), Json(JArr(<<BareToolJson>>))}

SettingsMalformed ==
    {Absent, NotJson, Json(JArr(<<>>)), Json(JObj([defaultTool |-> JNum]))}
SettingsValid ==
    {Json(JObj(NoFields)), Json(SettingsJson(SettingsZ))}

\* recents.json: JSON that is no array of strings
RecentsMalformed ==
    {Absent, NotJson, Json(JNull), Json(JNum), Json(JObj(NoFields)),
     Json(JStr(<<"a">>)), Json(JArr(<<JNum>>))}

\* lists a user or addRecent may have left: short ones, one with a
\* duplicate, and ones at and over the cap
MaxStored == 12
RecentsValid ==
    {Json(RecentsJson(names)) :
        names \in {<<>>, <<Letter(1)>>, <<Letter(2), Letter(1)>>,
                   <<Letter(2), Letter(1), Letter(2)>>}
                  \cup {Letters(n) : n \in (MaxRecents - 1)..MaxStored}}

----------------------------------------------------------------------------
(* The config store as a state machine: every exported function is an      *)
(* action, its arguments drawn from the sample values.                     *)

NoFiles == [path \in ConfigPaths |-> Absent]

Commit(name, a, o) ==
    /\ op' = name
    /\ arg' = a
    /\ ret' = o.ret
    /\ threw' = o.threw
    /\ pre' = [disk |-> disk, projects |-> projects]
    /\ disk' = o.disk
    /\ writes' = o.writes
    /\ logged' = o.logged
    /\ launched' = o.launched
    /\ spawned' = o.spawned

Idle ==
    /\ op = "init" /\ arg = Undefined /\ ret = Undefined /\ threw = FALSE
    /\ pre = [disk |-> disk, projects |-> <<>>]
    /\ writes = <<>> /\ logged = <<>> /\ launched = <<>> /\ spawned = <<>>
    /\ tasks = <<>>
    /\ defaults = DEFAULT_TOOLS
    /\ projects = <<>> /\ selected = 0 /\ added = <<>>
    /\ host = QuietHost
    /\ request = Undefined /\ folders = {}

\* the contents a config file may start with
Contents(path) ==
    CASE path = CONFIG_PATH -> ProjectsMalformed \cup ProjectsValid
      [] path = TOOLS_PATH -> ToolsMalformed \cup ToolsValid
      [] path = SETTINGS_PATH -> SettingsMalformed \cup SettingsValid
      [] OTHER -> RecentsMalformed \cup RecentsValid

\* no config directory yet, or a directory in which one file is in any of
\* its states (the calls that follow create and overwrite the others)
Init ==
    /\ \/ disk = [dir |-> FALSE, files |-> NoFiles]
       \/ \E path \in ConfigPaths : \E c \in Contents(path) :
             disk = [dir |-> TRUE, files |-> [NoFiles EXCEPT ![path] = c]]
    /\ Idle

LoadProjects ==
    /\ Commit("loadProjects", Undefined, loadProjects(disk))
    /\ UNCHANGED <<projects, selected, request, folders, added, host, tasks, defaults>>

LoadTools ==
    /\ Commit("loadTools", Undefined, loadTools(disk))
    /\ UNCHANGED <<projects, selected, request, folders, added, host, tasks, defaults>>

LoadSettings ==
    /\ Commit("loadSettings", Undefined, loadSettings(disk))
    /\ UNCHANGED <<projects, selected, request, folders, added, host, tasks, defaults>>

LoadRecents ==
    /\ Commit("loadRecents", Undefined, loadRecents(disk))
    /\ UNCHANGED <<projects, selected, request, folders, added, host, tasks, defaults>>

AddRecent ==
    \E n \in {Letter(1), Letter(2), Letter(MaxRecents)} :
        /\ Commit("addRecent", n, addRecent(disk, n))
        /\ UNCHANGED <<projects, selected, request, folders, added, host, tasks, defaults>>

SaveProjects ==
    \E ps \in {<<>>, <<ProjB, ProjA>>} :
        /\ Commit("saveProjects", ps, saveProjects(disk, ps))
        /\ UNCHANGED <<projects, selected, request, folders, added, host, tasks, defaults>>

SaveTools ==
    \E ts \in {<<ToolY>>} :
        /\ Commit("saveTools", ts, saveTools(disk, ts))
        /\ UNCHANGED <<projects, selected, request, folders, added, host, tasks, defaults>>

SaveSettings ==
    \E s \in {DEFAULT_SETTINGS} :
        /\ Commit("saveSettings", s, saveSettings(disk, s))
        /\ UNCHANGED <<projects, selected, request, folders, added, host, tasks, defaults>>

Next ==
    \/ LoadProjects
    \/ LoadTools
    \/ LoadSettings
    \/ LoadRecents
    \/ AddRecent
    \/ SaveProjects
    \/ SaveTools
    \/ SaveSettings

Spec == Init /\ [][Next]_vars

----------------------------------------------------------------------------
(* Properties of the config store (checked under Spec) *)

\* the file a call found was absent, not JSON, or JSON of the wrong shape
FoundAbsent(path) == pre.disk.files[path].st = "absent"
FoundNotJson(path) == pre.disk.files[path].st = "text"
FoundJson(path) == pre.disk.files[path].st = "json"

FoundMalformedProjects ==
    FoundJson(CONFIG_PATH) => ~ConfigSchemaOk(pre.disk.files[CONFIG_PATH].doc)
FoundMalformedTools ==
    FoundJson(TOOLS_PATH) => ~ToolsConfigSchemaOk(pre.disk.files[TOOLS_PATH].doc)
FoundMalformedSettings ==
    FoundJson(SETTINGS_PATH) => ~SettingsSchemaOk(pre.disk.files[SETTINGS_PATH].doc)
FoundMalformedRecents ==
    FoundJson(RECENTS_PATH) => ~IsStringArray(pre.disk.files[RECENTS_PATH].doc)

\* C1: each load* returns its documented default, without raising, when its
\* file is absent, is not JSON, or is JSON of the wrong shape; and addRecent
\* on such a recents file does not raise.
C1_LoadsFallBackToDefaults ==
    /\ (op = "loadProjects" /\ FoundMalformedProjects) => (~threw /\ ret = <<>>)
    /\ (op = "loadTools" /\ FoundMalformedTools) => (~threw /\ ret = DEFAULT_TOOLS)
    /\ (op = "loadSettings" /\ FoundMalformedSettings) =>
          (~threw /\ ret = DEFAULT_SETTINGS)
    /\ (op = "loadRecents" /\ FoundMalformedRecents) => (~threw /\ ret = JArr(<<>>))
    /\ (op = "addRecent" /\ FoundMalformedRecents) => ~threw

\* the recents list a call found / left, when recents.json holds one
FoundRecentsList ==
    FoundJson(RECENTS_PATH) /\ IsStringArray(pre.disk.files[RECENTS_PATH].doc)
FoundRecents == Names(pre.disk.files[RECENTS_PATH].doc)
LeftRecentsList ==
    /\ disk.files[RECENTS_PATH].st = "json"
    /\ IsStringArray(disk.files[RECENTS_PATH].doc)
LeftRecents == Names(disk.files[RECENTS_PATH].doc)

Occurrences(list, n) == Cardinality({i \in DOMAIN list : list[i] = n})

\* C2: after addRecent(n) on any persisted recents list, the persisted list
\* has at most 10 entries and holds n exactly once, at index 0; one more
\* addRecent(n) leaves the disk as it is.
C2_AddRecentIdempotent ==
    (op = "addRecent" /\ FoundRecentsList) =>
        /\ ~threw
        /\ LeftRecentsList
        /\ Len(LeftRecents) <= MaxRecents
        /\ LeftRecents[1] = arg
        /\ Occurrences(LeftRecents, arg) = 1
        /\ addRecent(disk, arg).disk = disk

\* an addRecent of a name found further down a list longer than the cap
C2_Witness ==
    /\ op = "addRecent" /\ FoundRecentsList
    /\ Len(FoundRecents) > MaxRecents
    /\ \E i \in 2..Len(FoundRecents) : FoundRecents[i] = arg
    /\ LeftRecentsList /\ LeftRecents[1] = arg

\* the config-store function that writes a path
Writer(path) ==
    CASE path = CONFIG_PATH -> "saveProjects"
      [] path = TOOLS_PATH -> "saveTools"
      [] path = SETTINGS_PATH -> "saveSettings"
      [] OTHER -> "addRecent"

LoadOps == {"loadProjects", "loadTools", "loadSettings", "loadRecents"}

\* C10: a load writes nothing (an absent projects.json or tools.json yields
\* [] or the built-in catalog and is still absent afterwards), and a config
\* file appears or changes only in a call that went through its writer.
C10_OnlySavesWrite ==
    /\ op \in LoadOps => (disk = pre.disk /\ writes = <<>>)
    /\ (op = "loadProjects" /\ FoundAbsent(CONFIG_PATH)) =>
          (ret = <<>> /\ ~existsSync(disk, CONFIG_PATH))
    /\ (op = "loadTools" /\ FoundAbsent(TOOLS_PATH)) =>
          (ret = DEFAULT_TOOLS /\ ~existsSync(disk, TOOLS_PATH))
    /\ \A path \in ConfigPaths :
          disk.files[path] # pre.disk.files[path] => Writer(path) \in Range(writes)

\* loads of absent projects.json and tools.json, and a later first save
C10_Witness ==
    \/ op = "loadProjects" /\ FoundAbsent(CONFIG_PATH) /\ ~disk.dir
    \/ op = "loadTools" /\ FoundAbsent(TOOLS_PATH) /\ existsSync(disk, CONFIG_PATH)

\* the functions that write a config file, and the path each writes
SaveOps == {"saveProjects", "saveTools", "saveSettings", "addRecent"}
Target ==
    CASE op = "saveProjects" -> CONFIG_PATH
      [] op = "saveTools" -> TOOLS_PATH
      [] op = "saveSettings" -> SETTINGS_PATH
      [] OTHER -> RECENTS_PATH

\* the JSON of the argument of the last save; for addRecent over a
\* directory that did not exist, the list of the one name
ArgumentJson ==
    CASE op = "saveProjects" -> ProjectsJson(arg)
      [] op = "saveTools" -> ToolsJson(arg)
      [] op = "saveSettings" -> SettingsJson(arg)
      [] OTHER -> RecentsJson(<<arg>>)

C21_OverwriteWitness ==
    /\ op \in SaveOps /\ ~threw /\ ~FoundAbsent(Target)
    /\ disk.files[Target] # pre.disk.files[Target]
    /\ \E path \in ConfigPaths \ {Target} : existsSync(disk, path)

\* tools.json as the last call found it, when it holds a valid tool array
FoundToolsDoc == pre.disk.files[TOOLS_PATH].doc
FoundValidTools == FoundJson(TOOLS_PATH) /\ ToolsConfigSchemaOk(FoundToolsDoc)

\* the stored property k of the tool entry f is the text / boolean held in
\* o (<<>>: none) when it is present, and o is dflt otherwise
KeepsStored(f, k, o, dflt) ==
    IF k \in DOMAIN f
    THEN o = <<IF f[k].t = "bool" THEN f[k].b ELSE f[k].s>>
    ELSE o = dflt

\* C11: loadTools returns each entry of a valid, non-empty tools.json with
\* enabled = true when it omits enabled, launchInTerminal and the admin flag
\* false when it omits them, and every property it holds as stored.
C11_ToolDefaults ==
    (op = "loadTools" /\ FoundValidTools /\ FoundToolsDoc.items # <<>>) =>
        /\ Len(ret) = Len(FoundToolsDoc.items)
        /\ \A i \in DOMAIN ret :
              LET f == FoundToolsDoc.items[i].fields IN
              /\ KeepsStored(f, "id", <<ret[i].id>>, <<>>)
              /\ KeepsStored(f, "name", <<ret[i].name>>, <<>>)
              /\ KeepsStored(f, "executable", <<ret[i].executable>>, <<>>)
              /\ KeepsStored(f, "enabled", <<ret[i].enabled>>, <<TRUE>>)
              /\ KeepsStored(f, "launchInTerminal", <<ret[i].launchInTerminal>>, <<FALSE>>)
              /\ KeepsStored(f, "supportsAdmin", ret[i].supportsAdmin, <<FALSE>>)
              /\ KeepsStored(f, "versionArgs", ret[i].versionArgs, <<>>)
              /\ KeepsStored(f, "updateCommand", ret[i].updateCommand, <<>>)
              /\ KeepsStored(f, "launchArgs", ret[i].launchArgs, <<>>)
              /\ IF "projectFilePatterns" \in DOMAIN f
                 THEN /\ ret[i].projectFilePatterns # <<>>
                      /\ JArr([k \in DOMAIN ret[i].projectFilePatterns[1] |->
                                 JStr(ret[i].projectFilePatterns[1][k])])
                            = f["projectFilePatterns"]
                 ELSE ret[i].projectFilePatterns = <<>>

\* a loadTools of an entry that holds the three required properties only
C11_Witness ==
    /\ op = "loadTools" /\ FoundValidTools /\ FoundToolsDoc.items # <<>>
    /\ DOMAIN FoundToolsDoc.items[1].fields = {"id", "name", "executable"}
    /\ ret[1].enabled /\ ~ret[1].launchInTerminal

\* C12: loadTools returns exactly the tools stored in tools.json whenever
\* it holds a valid tool array, the empty array included, and the built-in
\* catalog only when the file is absent or invalid.
C12_OverrideReplacesDefaults ==
    op = "loadTools" =>
        IF FoundValidTools
        THEN /\ Len(ret) = Len(FoundToolsDoc.items)
             /\ \A i \in DOMAIN ret : ret[i].id = FoundToolsDoc.items[i].fields["id"].s
        ELSE ret = DEFAULT_TOOLS

----------------------------------------------------------------------------
(* The recents tracker from an absent recents.json (SpecRecents).          *)
(* Names matter only up to equality, so a name not added before is always  *)
(* the next letter; a name added before may be any of them.                *)

\* how many distinct names are added, and how often a known name is re-added
RecentNames == 12
MaxReAdds == 1

InitRecents ==
    /\ disk \in {[dir |-> b, files |-> NoFiles] : b \in BOOLEAN}
    /\ Idle

AddNewName ==
    /\ Cardinality(Range(added)) < RecentNames
    /\ LET n == Letter(Cardinality(Range(added)) + 1) IN
          /\ Commit("addRecent", n, addRecent(disk, n))
          /\ added' = Append(added, n)
    /\ UNCHANGED <<projects, selected, request, folders, host, tasks, defaults>>

AddKnownName ==
    /\ Len(added) - Cardinality(Range(added)) < MaxReAdds
    /\ \E n \in Range(added) :
          /\ Commit("addRecent", n, addRecent(disk, n))
          /\ added' = Append(added, n)
    /\ UNCHANGED <<projects, selected, request, folders, host, tasks, defaults>>

NextRecents == AddNewName \/ AddKnownName

SpecRecents == InitRecents /\ [][NextRecents]_vars

\* when n was last passed to addRecent
LastAdd(n) == CHOOSE i \in DOMAIN added : added[i] = n /\ \A j \in (i+1)..Len(added) : added[j] # n

\* list without its occurrences of n
Without(list, n) == LET NotN(x) == x # n IN SelectSeq(list, NotN)

\* C3: from an absent recents.json, the persisted list has no duplicates, at
\* most 10 entries, and its k-th entry is the k-th most recently added
\* distinct name; adding a name already listed moves it to the front and
\* keeps the order of the others.
C3_RecentsMostRecentFirst ==
    IF added = <<>> THEN ~existsSync(disk, RECENTS_PATH)
    ELSE /\ ~threw
         /\ LeftRecentsList
         /\ \A i, j \in DOMAIN LeftRecents : i # j => LeftRecents[i] # LeftRecents[j]
         /\ Len(LeftRecents) <= MaxRecents
         /\ Len(LeftRecents) = IF Cardinality(Range(added)) < MaxRecents
                               THEN Cardinality(Range(added)) ELSE MaxRecents
         /\ \A k \in DOMAIN LeftRecents :
                /\ LeftRecents[k] \in Range(added)
                /\ Cardinality({n \in Range(added) :
                                   LastAdd(n) > LastAdd(LeftRecents[k])}) = k - 1
         /\ (FoundRecentsList /\ arg \in Range(FoundRecents)) =>
                /\ LeftRecents[1] = arg
                /\ Without(LeftRecents, arg) = Without(FoundRecents, arg)

\* more distinct names than the cap were added, and one still listed, not at
\* the front, was added again
C3_Witness ==
    /\ Cardinality(Range(added)) > MaxRecents
    /\ FoundRecentsList /\ Len(FoundRecents) = MaxRecents
    /\ \E i \in 2..Len(FoundRecents) : FoundRecents[i] = arg
    /\ LeftRecentsList /\ LeftRecents[1] = arg

----------------------------------------------------------------------------
(* Saving a Project array and reloading it (SpecRoundTrip) *)

\* the longest array saved
MaxProjects == 2

\* Project values: names differing in case, no / one / two workspaces,
\* command undefined, empty or set
ProjectValues ==
    {[name |-> n, path |-> <<"/">> \o n, workspaces |-> w, command |-> c] :
        n \in {<<"a">>, <<"B">>},
        w \in {<<>>, DefaultWorkspaces,
               DefaultWorkspaces \o <<[name |-> <<"W">>, path |-> <<"w">>]>>},
        c \in {<<>>, <<<<>>>>, <<<<"r","u","n">>>>}}

RECURSIVE ArraysOf(_, _)
ArraysOf(S, n) ==
    IF n = 0 THEN {<<>>}
    ELSE LET shorter == ArraysOf(S, n - 1) IN
         shorter \cup {Append(a, x) : a \in {b \in shorter : Len(b) = n - 1}, x \in S}

ProjectArrays == ArraysOf(ProjectValues, MaxProjects)

\* saveProjects(ps) followed by loadProjects()
saveAndReload(d, ps) ==
    LET s == saveProjects(d, ps) IN
    IF s.threw THEN s ELSE Then(s, loadProjects(s.disk))

\* the array to save is drawn with the disk it is saved to
InitRoundTrip ==
    /\ \/ disk = [dir |-> FALSE, files |-> NoFiles]
       \/ \E c \in Contents(CONFIG_PATH) :
             disk = [dir |-> TRUE, files |-> [NoFiles EXCEPT ![CONFIG_PATH] = c]]
    /\ projects \in ProjectArrays
    /\ op = "init" /\ arg = Undefined /\ ret = Undefined /\ threw = FALSE
    /\ pre = [disk |-> disk, projects |-> projects]
    /\ writes = <<>> /\ logged = <<>> /\ launched = <<>> /\ spawned = <<>>
    /\ tasks = <<>>
    /\ defaults = DEFAULT_TOOLS
    /\ selected = 0 /\ added = <<>>
    /\ request = Undefined /\ folders = {}
    /\ host = QuietHost

SaveAndReload ==
    /\ Commit("saveAndReload", projects, saveAndReload(disk, projects))
    /\ UNCHANGED <<projects, selected, request, folders, added, host, tasks, defaults>>

SpecRoundTrip == InitRoundTrip /\ [][SaveAndReload]_vars

\* C9: saveProjects(ps) followed by loadProjects() returns an array equal to
\* ps in length, order, and every name, path, command and workspace.
C9_ProjectsRoundTrip ==
    op = "saveAndReload" =>
        /\ ~threw
        /\ Len(ret) = Len(arg)
        /\ \A i \in DOMAIN arg :
              /\ ret[i].name = arg[i].name
              /\ ret[i].path = arg[i].path
              /\ ret[i].command = arg[i].command
              /\ ret[i].workspaces = arg[i].workspaces

\* an array of two projects, one without and one with a command, one of
\* them without workspaces, saved over a file that was malformed
C9_Witness ==
    /\ op = "saveAndReload" /\ Len(arg) = 2
    /\ arg[1].command = <<>> /\ arg[2].command # <<>>
    /\ arg[1].workspaces = <<>>
    /\ FoundNotJson(CONFIG_PATH)
    /\ ret = arg

\* the empty array round-trips too
C9_EmptyWitness == op = "saveAndReload" /\ arg = <<>> /\ ret = <<>>

----------------------------------------------------------------------------
(* Launching (SpecLaunch): a quickLaunch call with its arguments, or the   *)
(* interactive launchFlow over the projects main loaded.                   *)

\* the longest project list handed to quickLaunch
MaxListed == 2

QuickNames ==
    {<<"A","l","p","h","a">>, <<"b","e","t","a","-","a","p","p">>,
     <<"b","e","t","a">>, <<"A","L","P","H","A","B","E","T">>}

QuickQueries ==
    {<<"B","E","T","A">>, <<"b","e","t","a">>, <<"a","l","p","h","a">>,
     <<"z","e","t","a">>, <<>>}

\* a project as addFlow creates it
NewProject(name) ==
    [name |-> name, path |-> <<"/">> \o name,
     workspaces |-> DefaultWorkspaces, command |-> <<>>]

QuickProjectLists == ArraysOf({NewProject(n) : n \in QuickNames}, MaxListed)

\* the built-in catalog after the user enabled Visual Studio
CatalogWithVs == [DEFAULT_TOOLS EXCEPT ![6].enabled = TRUE]

\* tools.json: absent, the catalog with Visual Studio enabled, a registry
\* with one disabled and one enabled tool, a registry with no enabled tool
Registries ==
    {Absent, Json(ToolsJson(CatalogWithVs)), Json(ToolsJson(<<ToolX, ToolY>>)),
     Json(ToolsJson(<<ToolX>>))}

\* the tool argument: not given, empty, or a text
ToolArguments ==
    {<<>>, <<<<>>>>, <<<<"v","s">>>>, <<<<"c","o","d","e">>>>, <<<<"x">>>>}

PathsOf(ps) == {ps[i].path : i \in DOMAIN ps}

StartLaunch(files) ==
    /\ disk = [dir |-> TRUE, files |-> files]
    /\ op = "init" /\ arg = Undefined /\ ret = Undefined /\ threw = FALSE
    /\ pre = [disk |-> disk, projects |-> projects]
    /\ writes = <<>> /\ logged = <<>> /\ launched = <<>> /\ spawned = <<>>
    /\ tasks = <<>>
    /\ defaults = DEFAULT_TOOLS
    /\ selected = 0 /\ added = <<>>

InitLaunch ==
    \E t \in Registries, r \in {Absent, Json(JObj(NoFields))} :
        /\ \/ /\ projects \in QuickProjectLists
              /\ request \in [projectQuery : QuickQueries, toolId : ToolArguments]
              /\ folders \in {PathsOf(projects), {}}
           \/ /\ projects \in {<<>>, <<ProjA>>, <<ProjB, ProjA>>}
              /\ request = Undefined
              /\ folders \in SUBSET PathsOf(projects)
        /\ host = QuietHost
        /\ StartLaunch([NoFiles EXCEPT ![TOOLS_PATH] = t, ![RECENTS_PATH] = r])

QuickLaunch ==
    /\ request # Undefined
    /\ Commit("quickLaunch", request,
              quickLaunch(disk, projects, request.projectQuery, request.toolId, folders))
    /\ UNCHANGED <<projects, selected, request, folders, added, host, tasks, defaults>>

\* what the user may answer in launchFlow: any project or cancel, any
\* workspace or cancel, and no tool (cancel), one tool, or all offered
ToolPicks ==
    LET offered == enabledTools(loadTools(disk).ret) IN
    {<<>>} \cup {<<i>> : i \in DOMAIN offered} \cup {[i \in DOMAIN offered |-> i]}

LaunchFlow ==
    /\ request = Undefined
    /\ \E p \in 0..Len(projects) :
       \E w \in 0..(IF p = 0 THEN 0 ELSE Len(projects[p].workspaces)) :
       \E ts \in ToolPicks :
          LET pick == [project |-> p, ws |-> w, tools |-> ts] IN
          Commit("launchFlow", pick, launchFlow(disk, projects, folders, pick))
    /\ UNCHANGED <<projects, selected, request, folders, added, host, tasks, defaults>>

NextLaunch == QuickLaunch \/ LaunchFlow

SpecLaunch == InitLaunch /\ [][NextLaunch]_vars

----------------------------------------------------------------------------
(* Properties of launching (checked under SpecLaunch) *)

\* the projects whose name equals / contains the query, ignoring case
ExactMatches ==
    {i \in DOMAIN projects :
        toLowerCase(projects[i].name) = toLowerCase(request.projectQuery)}
PartialMatches ==
    {i \in DOMAIN projects :
        includes(toLowerCase(projects[i].name), toLowerCase(request.projectQuery))}

ReportedText(text) == \E i \in DOMAIN logged : logged[i].text = text
ReportedData(text) ==
    logged[CHOOSE i \in DOMAIN logged : logged[i].text = text].data

\* the paths of the projects the claim lets quickLaunch resolve
ClaimedProjectPaths ==
    IF ExactMatches # {} THEN {projects[i].path : i \in ExactMatches}
    ELSE {projects[i].path : i \in {j \in PartialMatches :
                                        \A k \in PartialMatches : j <= k}}

\* C4: quickLaunch resolves the project whose name equals the query ignoring
\* case if there is one anywhere in the list, only otherwise the first whose
\* name contains the query ignoring case, otherwise none.
C4_ExactProjectMatchFirst ==
    op = "quickLaunch" =>
        /\ ReportedText("Project not found") <=> ClaimedProjectPaths = {}
        /\ ReportedText("Project path does not exist") =>
              ReportedData("Project path does not exist") \in ClaimedProjectPaths
        /\ \A i \in DOMAIN launched :
              launched[i].workspacePath \in ClaimedProjectPaths

\* the tool list loaded for the last launch, and the enabled tools in it
LoadedTools == loadTools(pre.disk).ret
EnabledLoaded == {i \in DOMAIN LoadedTools : LoadedTools[i].enabled}

ToolGiven == request.toolId # <<>> /\ request.toolId[1] # <<>>

\* the enabled tools the claim lets quickLaunch select
ClaimedTools ==
    LET first(hits) == {LoadedTools[i] : i \in {j \in hits : \A k \in hits : j <= k}}
        byId == {i \in EnabledLoaded : LoadedTools[i].id = request.toolId[1]}
        byName == {i \in EnabledLoaded :
                      includes(toLowerCase(LoadedTools[i].name),
                               toLowerCase(request.toolId[1]))}
    IN  IF ~ToolGiven THEN first(EnabledLoaded)
        ELSE IF byId # {} THEN {LoadedTools[i] : i \in byId}
        ELSE first(byName)

\* C5: quickLaunch selects the enabled tool whose id equals the tool argument
\* if there is one anywhere in the registry, only otherwise the first
\* enabled tool whose display name contains it ignoring case; without a
\* tool argument, the first enabled tool.
C5_ExactToolIdFirst ==
    op = "quickLaunch" =>
        /\ ReportedText("Tool not found") => ClaimedTools = {}
        /\ \A i \in DOMAIN launched :
              launched[i].tool # Undefined => launched[i].tool \in ClaimedTools

\* C6: every tool launchFlow or quickLaunch hands to launchTool is a tool of
\* the list loaded for that launch with enabled = true.
C6_OnlyEnabledToolsLaunched ==
    op \in {"quickLaunch", "launchFlow"} =>
        \A i \in DOMAIN launched :
            launched[i].tool # Undefined =>
                \E j \in EnabledLoaded : LoadedTools[j] = launched[i].tool

\* launches went through although the list loaded holds a disabled tool:
\* a quickLaunch by default tool, and a launchFlow of all the tools offered
C6_Witness ==
    /\ \E j \in DOMAIN LoadedTools : ~LoadedTools[j].enabled
    /\ \/ op = "quickLaunch" /\ request.toolId = <<>> /\ Len(launched) = 1
          /\ launched[1].tool # Undefined
       \/ op = "launchFlow" /\ Len(launched) > 1

\* the project or the tool of the last quickLaunch could not be resolved
ProjectUnresolved == PartialMatches = {}
ToolUnresolved ==
    IF ToolGiven
    THEN \A i \in EnabledLoaded :
            /\ LoadedTools[i].id # request.toolId[1]
            /\ ~includes(toLowerCase(LoadedTools[i].name), toLowerCase(request.toolId[1]))
    ELSE EnabledLoaded = {}

\* C7: quickLaunch never throws; when the project or the tool cannot be
\* resolved it reports an error with the valid candidates and returns
\* without calling launchTool.  (Stated for calls that find recents.json
\* absent or holding a list, where addRecent itself cannot raise.)
C7_QuickLaunchNeverThrows ==
    (op = "quickLaunch" /\ (FoundAbsent(RECENTS_PATH) \/ FoundRecentsList)) =>
        /\ ~threw
        /\ ProjectUnresolved =>
              /\ ReportedText("Project not found")
              /\ ReportedText("Available")
              /\ launched = <<>>
        /\ (~ProjectUnresolved /\ PathsOf(projects) \subseteq folders /\ ToolUnresolved) =>
              /\ ReportedText("Tool not found")
              /\ ReportedText("Available")
              /\ launched = <<>>

\* recents.json as the last call left it is what the call found
RecentsUnchanged == disk.files[RECENTS_PATH] = pre.disk.files[RECENTS_PATH]

\* the last quickLaunch found no project, a project whose path is missing,
\* or no tool
QuickStopped ==
    \/ ProjectUnresolved
    \/ PathsOf(projects) \cap folders = {}
    \/ ToolUnresolved

\* the last launchFlow had a prompt cancelled, picked a project whose path
\* is missing, or found no enabled tool
FlowStopped ==
    \/ arg.project = 0
    \/ projects[arg.project].path \notin folders
    \/ (Len(projects[arg.project].workspaces) > 1 /\ arg.ws = 0)
    \/ EnabledLoaded = {}
    \/ arg.tools = <<>>

\* C30: recents.json changes only on a launch that reaches launchTool:
\* quickLaunch leaves it unchanged when the project is not found, its path
\* does not exist or the tool is not resolved; launchFlow leaves it unchanged
\* when a prompt is cancelled, the path is missing or no tool is enabled; and
\* a launchFlow that launches several tools calls addRecent exactly once.
C30_RecentsChangeOnlyOnLaunch ==
    /\ op \in {"quickLaunch", "launchFlow"} =>
          (RecentsUnchanged \/ launched # <<>>)
    /\ (op = "quickLaunch" /\ QuickStopped) => RecentsUnchanged
    /\ (op = "launchFlow" /\ projects # <<>> /\ FlowStopped) => RecentsUnchanged
    /\ (op = "launchFlow" /\ Len(launched) > 1) => Occurrences(writes, "addRecent") = 1

----------------------------------------------------------------------------------------------------------------------------------------
(* Managing projects: one visit of "Manage Projects" from the main menu,   *)
(* which reloads projects.json and runs manageFlow; inside                  *)
(* manageWorkspaces every pass of its loop is a step.                       *)

\* how many workspaces a project may grow to
MaxWorkspaces == 3

ManagedLists == {<<ProjB>>, <<ProjA, ProjB>>}

NewFolder == <<"/","n">>

Answers == {"true", "false", "cancel"}

InitManage ==
    /\ projects \in ManagedLists
    /\ folders = PathsOf(projects) \cup {NewFolder}
    /\ request = Undefined
    /\ host = QuietHost
    /\ StartLaunch([NoFiles EXCEPT ![CONFIG_PATH] = Json(ProjectsJson(projects))])

\* what the user may answer in manageFlow
Choices(ps) ==
    [project : 0..Len(ps), action : {"cancel", "back", "edit-workspaces"},
     text : {<<>>}, confirmed : {"cancel"}]
    \cup [project : 1..Len(ps), action : {"edit-name"},
          text : {<<>>, <<<<"n">>>>}, confirmed : {"cancel"}]
    \cup [project : 1..Len(ps), action : {"edit-path"},
          text : {<<>>, <<NewFolder>>}, confirmed : {"cancel"}]
    \cup [project : 1..Len(ps), action : {"delete"},
          text : {<<>>}, confirmed : Answers]

\* main's loop: const projects = loadProjects(); await manageFlow(projects)
ManageFlow ==
    /\ op = "init"
    /\ LET ps == loadProjects(disk).ret IN
       \E choice \in Choices(ps) :
          LET r == manageFlow(disk, ps, folders, choice) IN
          /\ Commit("manageFlow", choice, r.out)
          /\ projects' = r.projects
          /\ selected' = r.selected
    /\ UNCHANGED <<request, folders, added, host, tasks, defaults>>

\* what the user may answer in one pass of manageWorkspaces
Passes ==
    LET n == Len(projects[selected].workspaces) IN
    [kind : {"back"}, wsIndex : {0}, wsAction : {"back"},
     text : {<<>>}, path : {<<>>}, confirmed : {"cancel"}]
    \cup [kind : {"add"}, wsIndex : {0}, wsAction : {"back"},
          text : IF n < MaxWorkspaces THEN {<<>>, <<<<>>>>, <<<<"F">>>>} ELSE {<<>>, <<<<>>>>},
          path : {<<>>, <<<<"f">>>>}, confirmed : {"cancel"}]
    \cup [kind : {"edit"}, wsIndex : 0..(n - 1), wsAction : {"back"},
          text : {<<>>}, path : {<<>>}, confirmed : {"cancel"}]
    \cup [kind : {"edit"}, wsIndex : 0..(n - 1), wsAction : {"rename"},
          text : {<<>>, <<<<>>>>, <<<<"N">>>>}, path : {<<>>}, confirmed : {"cancel"}]
    \cup [kind : {"edit"}, wsIndex : 0..(n - 1), wsAction : {"path"},
          text : {<<>>, <<<<>>>>}, path : {<<>>}, confirmed : {"cancel"}]
    \cup [kind : {"edit"}, wsIndex : 0..(n - 1), wsAction : {"delete"},
          text : {<<>>}, path : {<<>>}, confirmed : Answers]

ManageWorkspaces ==
    /\ selected # 0
    /\ \E act \in Passes :
          LET r == manageWorkspaces(disk, projects, selected, act) IN
          /\ Commit("manageWorkspaces", act, r.out)
          /\ projects' = r.projects
          /\ selected' = IF r.done THEN 0 ELSE selected
    /\ UNCHANGED <<request, folders, added, host, tasks, defaults>>

NextManage == ManageFlow \/ ManageWorkspaces

SpecManage == InitManage /\ [][NextManage]_vars

\* C8: in manageWorkspaces a delete request for the workspace at index 0 is
\* rejected (nothing changed, nothing saved); a confirmed delete request for
\* another index removes exactly that entry, keeps the others in order and
\* saves the whole project list; an unconfirmed or cancelled one changes
\* nothing.
C8_WorkspaceDelete ==
    (op = "manageWorkspaces" /\ arg.kind = "edit" /\ arg.wsAction = "delete") =>
        LET before == pre.projects[selected].workspaces
            after == projects[selected].workspaces
            i == arg.wsIndex + 1
        IN  IF i > 1 /\ arg.confirmed = "true"
            THEN /\ Len(after) = Len(before) - 1
                 /\ \A k \in 1..(i - 1) : after[k] = before[k]
                 /\ \A k \in i..Len(after) : after[k] = before[k + 1]
                 /\ projects = [pre.projects EXCEPT ![selected].workspaces = after]
                 /\ writes = <<"saveProjects">>
                 /\ disk.files[CONFIG_PATH] = Json(ProjectsJson(projects))
                 /\ ~threw
            ELSE /\ projects = pre.projects
                 /\ disk = pre.disk
                 /\ writes = <<>>
                 /\ ~threw

\* a confirmed delete of a middle workspace, after which one follows it
C8_Witness ==
    /\ op = "manageWorkspaces" /\ arg.kind = "edit" /\ arg.wsAction = "delete"
    /\ arg.wsIndex >= 1 /\ arg.confirmed = "true"
    /\ Len(projects[selected].workspaces) > arg.wsIndex

\* a delete request for the Root workspace was turned down
C8_RootWitness ==
    /\ op = "manageWorkspaces" /\ arg.kind = "edit" /\ arg.wsAction = "delete"
    /\ arg.wsIndex = 0
    /\ ReportedText("Cannot delete the Root workspace")

----------------------------------------------------------------------------
(* The launcher on its own: launchTool on every tool of the registry, on   *)
(* machines that differ in the workspace listing and in what spawn does.   *)

WorkDir == <<"/","w">>

ToolExplorerInTerminal ==
    [ToolY EXCEPT !.id = EXPLORER, !.projectFilePatterns = <<>>]
ToolGitBash ==
    [ToolX EXCEPT !.id = <<"g","i","t","b","a","s","h">>, !.executable = GIT_BASH, !.enabled = TRUE,
                  !.launchArgs = <<<<>>>>]
ToolNoPatterns ==
    [ToolX EXCEPT !.id = <<"n">>, !.enabled = TRUE, !.projectFilePatterns = <<<<>>>>,
                  !.launchArgs = <<<<"-","-","n","e","w">>>>]

\* a terminal tool stored with "requiresAdmin": true next to its properties
AdminToolJson ==
    JObj(ToolJson(ToolY).fields @@ [requiresAdmin |-> JBool(TRUE)])

ToolRegistries ==
    {Absent,
     Json(JArr(<<ToolJson(ToolExplorerInTerminal), ToolJson(ToolGitBash),
                 ToolJson(ToolNoPatterns), AdminToolJson, BareToolJson>>))}

File(name) == [path |-> <<name>>, file |-> TRUE]

\* what the workspace holds, in the order the directory is read
Listings ==
    {<<>>,
     <<File(<<"a",".","s","l","n">>)>>,
     <<File(<<"n","o","t","e","s",".","t","x","t">>), File(<<"b",".","s","l","n">>), File(<<"a",".","s","l","n","x">>)>>,
     <<[path |-> <<<<"x",".","s","l","n">>>>, file |-> FALSE],
       [path |-> <<<<"s","u","b">>, <<"c",".","s","l","n">>>>, file |-> TRUE],
       File(<<".","d",".","s","l","n">>)>>,
     <<File(<<"p",".","c","o","d","e","-","w","o","r","k","s","p","a","c","e">>), File(<<"q",".","c","o","d","e","-","w","o","r","k","s","p","a","c","e">>)>>}

SpawnResults == {"ok", "throws", "emits"}

Hosts ==
    [entries : Listings, results : [1..2 -> SpawnResults],
     gsudo : BOOLEAN, winget : {<<Closed(0)>>}]

InitTool ==
    /\ host \in Hosts
    /\ projects = <<>> /\ request = Undefined /\ folders = {WorkDir}
    /\ \E t \in ToolRegistries : StartLaunch([NoFiles EXCEPT ![TOOLS_PATH] = t])

LaunchTool ==
    /\ \E i \in DOMAIN loadTools(disk).ret :
          LET tool == loadTools(disk).ret[i] IN
          Commit("launchTool", [tool |-> tool, workspacePath |-> WorkDir],
                 launchTool(disk, tool, WorkDir))
    /\ UNCHANGED <<projects, selected, request, folders, added, host, tasks, defaults>>

NextTool == LaunchTool

SpecTool == InitTool /\ [][NextTool]_vars

\* the tool and the workspace of the last launchTool call
Tool == arg.tool
Workspace == arg.workspacePath

\* the patterns the tool declares (none: the empty list)
DeclaredPatterns ==
    IF Tool.projectFilePatterns = <<>> THEN <<>> ELSE Tool.projectFilePatterns[1]

\* name ends with the text that follows the "*" of the pattern, and is no
\* dot file
EndsAs(name, pattern) ==
    /\ Head(name) # "."
    /\ \E k \in 1..Len(name) : SubSeq(name, k, Len(name)) = Tail(pattern)

\* the entries a one-level, files-only search of the workspace yields
Yielded ==
    {i \in DOMAIN host.entries :
        /\ host.entries[i].file
        /\ Len(host.entries[i].path) = 1
        /\ \E k \in DOMAIN DeclaredPatterns :
              EndsAs(host.entries[i].path[1], DeclaredPatterns[k])}

ClaimedTarget ==
    IF Yielded = {} THEN Workspace
    ELSE Workspace \o <<"/">> \o
         host.entries[CHOOSE i \in Yielded : \A j \in Yielded : i <= j].path[1]

\* the tool is launched by the last rule: its executable, directly
DirectLaunch ==
    /\ ~Tool.launchInTerminal
    /\ Tool.id \notin {EXPLORER, <<"t","e","r","m","i","n","a","l">>, <<"g","i","t","b","a","s","h">>}

\* C13: launchTool's target is the absolute path of the first file that
\* the one-level, files-only search of the workspace yields for the tool's
\* patterns, and the workspace directory when the tool has no patterns, an
\* empty list of them, or the search yields nothing.
C13_TargetIsFirstProjectFile ==
    op = "launchTool" =>
        /\ resolveTarget(Tool, Workspace) = ClaimedTarget
        /\ ReportedText("Found project file") <=> ClaimedTarget # Workspace
        /\ ReportedText("Found project file") =>
              ReportedData("Found project file") = ClaimedTarget
        /\ DirectLaunch => spawned[1].args[Len(spawned[1].args)] = ClaimedTarget

\* a tool with two patterns launched where the search yields two files,
\* the first of them for the second pattern
C13_Witness ==
    /\ op = "launchTool" /\ DirectLaunch
    /\ Len(DeclaredPatterns) = 2 /\ Cardinality(Yielded) = 2
    /\ EndsAs(host.entries[CHOOSE i \in Yielded : \A j \in Yielded : i <= j].path[1],
              DeclaredPatterns[2])
    /\ spawned[1].args = <<ClaimedTarget>>

\* the command line of a spawn call
Invocation(call) == <<call.command>> \o call.args

\* the terminal emulator running the tool's executable in the workspace
TerminalInvocation ==
    <<WT, ArgD, Workspace, PWSH, ArgNoExit, ArgCommand, Tool.executable>>

\* C14: launchTool spawns the elevation helper around the terminal
\* invocation exactly when the tool loaded from the registry is in
\* terminal mode, carries the admin flag, and the helper is available; any
\* other terminal-mode launch is the same invocation without the wrapper.
C14_ElevatedWhenAdminAndHelper ==
    (op = "launchTool" /\ Tool.launchInTerminal) =>
        IF Tool.supportsAdmin = <<TRUE>> /\ host.gsudo
        THEN Invocation(spawned[1]) = <<GSUDO>> \o TerminalInvocation
        ELSE Invocation(spawned[1]) = TerminalInvocation

\* the spawn the claim's rules select for the tool
ClaimedInvocation ==
    IF Tool.launchInTerminal THEN TerminalInvocation
    ELSE IF Tool.id = EXPLORER THEN <<EXPLORER, Workspace>>
    ELSE IF Tool.id = <<"t","e","r","m","i","n","a","l">> THEN <<WT, ArgD, Workspace>>
    ELSE IF Tool.id = <<"g","i","t","b","a","s","h">> THEN <<GIT_BASH, ArgCd \o Workspace>>
    ELSE <<Tool.executable>>
         \o (IF Tool.launchArgs \in {<<>>, <<<<>>>>} THEN <<>> ELSE Tool.launchArgs)
         \o <<ClaimedTarget>>

\* C15: a launchTool call whose spawn succeeds issues exactly one spawn,
\* in the workspace directory, selected by the first rule that matches:
\* terminal mode, id explorer, id terminal, id gitbash, else the executable
\* with [launchArgs if set, target]; the project file is passed in the last
\* case only.
C15_OneSpawnByFirstRule ==
    (op = "launchTool" /\ spawned[1].result = "ok") =>
        /\ Len(spawned) = 1
        /\ Invocation(spawned[1]) = ClaimedInvocation
        /\ spawned[1].cwd = Workspace
        /\ (~DirectLaunch /\ ClaimedTarget # Workspace) =>
              ClaimedTarget \notin Range(spawned[1].args)

\* a terminal-mode tool whose id is explorer, launched in a workspace that
\* holds a project file for it
C15_Witness ==
    /\ op = "launchTool" /\ spawned[1].result = "ok"
    /\ Tool.launchInTerminal /\ Tool.id = EXPLORER
    /\ spawned[1].command = WT

\* the bare terminal emulator at the workspace
BareTerminal == <<WT, ArgD, Workspace, PWSH, ArgNoExit>>

\* C16: when the primary spawn fails, a terminal-mode tool gets exactly one
\* fallback spawn, the bare terminal at the workspace, whose failure is
\* reported and not retried; another tool gets no further spawn; launchTool
\* never issues more than two spawns nor passes the failure to its caller.
C16_OneFallbackForTerminalTools ==
    (op = "launchTool" /\ spawned[1].result # "ok") =>
        /\ IF Tool.launchInTerminal
           THEN /\ Len(spawned) = 2
                /\ Invocation(spawned[2]) = BareTerminal
                /\ spawned[2].result # "ok" => ReportedText("Fallback failed")
           ELSE Len(spawned) = 1
        /\ ~threw

\* the place of a message in the log of the last call (0: not there)
PlaceOf(text) ==
    IF ReportedText(text) THEN CHOOSE i \in DOMAIN logged : logged[i].text = text ELSE 0

\* C17: a launchTool call whose spawn fails emits the failure message
\* naming the tool and never the success message, and returns only after
\* the acknowledgement prompt was answered, which comes after the fallback
\* attempt; a call whose spawn succeeds emits the success message and shows
\* no prompt.
C17_FailureAcknowledged ==
    op = "launchTool" =>
        IF spawned[1].result # "ok"
        THEN /\ ReportedText("Failed to launch")
             /\ ReportedData("Failed to launch") = Tool.name
             /\ ~ReportedText("launched")
             /\ ~threw
             /\ PlaceOf(Acknowledged.text) = Len(logged)
             /\ \A k \in DOMAIN spawned : spawned[k].at < Len(logged)
        ELSE /\ ReportedText("launched")
             /\ ReportedData("launched") = Tool.name
             /\ ~ReportedText(Acknowledged.text)

\* C20: every spawn launchTool issues, primary or fallback, is detached
\* with its standard streams ignored, the child is unreferenced, and nothing
\* listens for its exit: once the child runs, launchTool returns.
C20_SpawnsAreDetached ==
    op = "launchTool" =>
        /\ \A k \in DOMAIN spawned :
              spawned[k].result = "ok" =>
                 /\ spawned[k].detached
                 /\ spawned[k].stdio = "ignore"
                 /\ spawned[k].unref
                 /\ spawned[k].listeners = {}
        /\ spawned[Len(spawned)].result = "ok" => (~threw /\ ret = Undefined)

\* a launch whose fallback terminal was started
C20_Witness ==
    /\ op = "launchTool" /\ Len(spawned) = 2
    /\ spawned[2].result = "ok" /\ ~threw

----------------------------------------------------------------------------
(* The command line (SpecMain): one run of the program with its arguments, *)
(* over config files that are absent, malformed or valid.                  *)

SettingsVs == [defaultCodePath |-> <<"/","c">>, defaultTool |-> <<"v","s">>]

\* process.argv.slice(2)
ArgLists ==
    {<<>>, <<<<"-","-","x">>>>, <<<<"-","-","h","e","l","p">>>>, <<<<"b","e","t","a">>, <<"-","h">>>>, <<<<"b","e","t","a">>>>,
     <<<<"B","E","T","A">>, <<"v","s">>>>, <<<<"b","e","t","a">>, <<>>>>, <<<<"b","e","t","a">>, <<"x">>>>,
     <<<<"b","e","t","a">>, <<"c","o","d","e">>>>, <<<<"z","e","t","a">>>>}

MainProjects ==
    {Absent, NotJson,
     Json(ProjectsJson(<<NewProject(<<"b","e","t","a","-","a","p","p">>), NewProject(<<"b","e","t","a">>)>>))}

MainSettings ==
    {Absent, NotJson, Json(SettingsJson(SettingsZ)), Json(SettingsJson(SettingsVs))}

MainHosts ==
    [entries : {<<>>},
     results : {<<"ok", "ok">>, <<"throws", "ok">>, <<"throws", "emits">>, <<"emits", "ok">>},
     gsudo : BOOLEAN, winget : {<<Closed(0)>>, <<Closed(1)>>}]

InitMain ==
    /\ host \in MainHosts
    /\ projects = <<>>
    /\ request \in ArgLists
    /\ \E ps \in MainProjects, t \in Registries \cup {NotJson}, s \in MainSettings,
          r \in {Absent, Json(JObj(NoFields))} :
          /\ folders \in {{<<"/">> \o <<"b","e","t","a","-","a","p","p">>, <<"/">> \o <<"b","e","t","a">>}, {}}
          /\ StartLaunch([NoFiles EXCEPT ![CONFIG_PATH] = ps, ![TOOLS_PATH] = t,
                                         ![SETTINGS_PATH] = s, ![RECENTS_PATH] = r])

\* the program is run; the user answers the gsudo question if it is asked
Main ==
    /\ \E answer \in {"true", "false", "cancel"} :
          Commit("main", request, main(disk, request, folders, answer))
    /\ UNCHANGED <<projects, selected, request, folders, added, host, tasks, defaults>>

NextMain == Main

SpecMain == InitMain /\ [][NextMain]_vars

\* the last run had a help flag / was a quick launch
HelpAsked == op = "main" /\ \E i \in DOMAIN arg : arg[i] \in HelpFlags
QuickMode == op = "main" /\ ~HelpAsked /\ Len(arg) > 0 /\ ~startsWith(arg[1], "-")

\* the tool text of the run: the second argument, else the defaultTool
\* stored in settings.json, else "claude"
StoredSettings == pre.disk.files[SETTINGS_PATH]
WantedTool ==
    IF Len(arg) >= 2 /\ arg[2] # <<>> THEN arg[2]
    ELSE IF /\ StoredSettings.st = "json"
            /\ SettingsSchemaOk(StoredSettings.doc)
            /\ Has(StoredSettings.doc, "defaultTool")
    THEN StoredSettings.doc.fields["defaultTool"].s
    ELSE <<"c","l","a","u","d","e">>

\* C18: a quick launch hands launchTool the enabled tool identified by the
\* second argument if there is one, else by settings.defaultTool ("claude"
\* when settings.json is absent or invalid): the tool with that id when an
\* enabled tool has it, whatever its place in the registry.
C18_DefaultToolLaunched ==
    QuickMode =>
        \A i \in DOMAIN launched :
            (/\ launched[i].tool # Undefined
             /\ \E j \in EnabledLoaded : LoadedTools[j].id = WantedTool)
            => launched[i].tool.id = WantedTool

\* C19: a quick launch ends the process with exit code 0 whether the launch
\* went through, the project was not found, its path is missing or the tool
\* was not found (stated for every run in which no spawn raises an
\* asynchronous error); a run with --help or -h among its arguments prints
\* the usage and exits 0 with no load, launch, spawn or write.
C19_QuickLaunchExitsZero ==
    /\ (QuickMode /\ \A k \in DOMAIN spawned : spawned[k].result # "emits") =>
           ret = Exit(0)
    /\ HelpAsked =>
           /\ ret = Exit(0)
           /\ logged = <<Msg("log", "Usage", Undefined)>>
           /\ launched = <<>> /\ spawned = <<>> /\ writes = <<>>
           /\ disk = pre.disk

\* the four ways a quick launch ends, each with exit code 0
C19_Witness ==
    /\ QuickMode /\ ret = Exit(0)
    /\ \/ ReportedText("launched")
       \/ ReportedText("Project not found")
       \/ ReportedText("Project path does not exist")
       \/ ReportedText("Tool not found")

C19_LaunchedWitness == QuickMode /\ ret = Exit(0) /\ ReportedText("launched")
C19_NoProjectWitness == QuickMode /\ ret = Exit(0) /\ ReportedText("Project not found")
C19_NoPathWitness == QuickMode /\ ret = Exit(0) /\ ReportedText("Project path does not exist")
C19_NoToolWitness == QuickMode /\ ret = Exit(0) /\ ReportedText("Tool not found")
C19_RejectedWitness == QuickMode /\ ret = Exit(0) /\ ReportedText("Error")

\* -h after a project name, with projects.json and tools.json malformed
C19_HelpWitness ==
    /\ HelpAsked /\ Len(arg) = 2 /\ ret = Exit(0)
    /\ FoundNotJson(CONFIG_PATH) /\ FoundNotJson(TOOLS_PATH)

----------------------------------------------------------------------------
(* The elevation helper (SpecGsudo): checkGsudo, installGsudo and          *)
(* checkAndInstallGsudo over registries with and without admin tools, on   *)
(* machines with and without gsudo, where winget succeeds, fails or        *)
(* cannot be started.                                                      *)

\* tools.json: absent, malformed, empty, and registries whose tools are
\* enabled or not and flagged or not; the last one carries the flag under
\* another name, which the schema strips
GsudoRegistries ==
    {Absent, NotJson, Json(JArr(<<>>)),
     Json(ToolsJson(<<ToolX, ToolY>>)),
     Json(ToolsJson(<<ToolX>>)),
     Json(ToolsJson(<<[ToolX EXCEPT !.supportsAdmin = <<TRUE>>]>>)),
     Json(ToolsJson(<<[ToolY EXCEPT !.supportsAdmin = <<FALSE>>], ToolX>>)),
     Json(JArr(<<BareToolJson>>)),
     Json(JArr(<<AdminToolJson>>))}

WingetRuns == {<<Closed(0)>>, <<Closed(1)>>, <<Errored>>, <<Errored, Closed(0 - 2)>>}

GsudoHosts ==
    [entries : {<<>>}, results : {<<"ok", "ok">>}, gsudo : BOOLEAN, winget : WingetRuns]

InitGsudo ==
    /\ host \in GsudoHosts
    /\ projects = <<>> /\ request \in {<<>>, <<<<"b","e","t","a">>>>} /\ folders = {}
    /\ \E t \in GsudoRegistries : StartLaunch([NoFiles EXCEPT ![TOOLS_PATH] = t])

CheckGsudo ==
    /\ Commit("checkGsudo", Undefined, checkGsudo(disk))
    /\ UNCHANGED <<projects, selected, request, folders, added, host, tasks, defaults>>

InstallGsudo ==
    /\ Commit("installGsudo", Undefined, installGsudo(disk))
    /\ UNCHANGED <<projects, selected, request, folders, added, host, tasks, defaults>>

CheckAndInstallGsudo ==
    /\ \E answer \in {"true", "false", "cancel"} :
          Commit("checkAndInstallGsudo", answer, checkAndInstallGsudo(disk, answer))
    /\ UNCHANGED <<projects, selected, request, folders, added, host, tasks, defaults>>

\* (Main: one run of the program, interactive or a quick launch)
NextGsudo == CheckGsudo \/ InstallGsudo \/ CheckAndInstallGsudo \/ Main

SpecGsudo == InitGsudo /\ [][NextGsudo]_vars

\* the loaded registry holds a tool that is enabled and has supportsAdmin
AdminToolEnabled ==
    \E i \in EnabledLoaded : LoadedTools[i].supportsAdmin = <<TRUE>>

\* the probes for gsudo among the children of the last call
GsudoProbes ==
    {k \in DOMAIN spawned : spawned[k].command = <<"w","h","e","r","e">> /\ spawned[k].args = <<GSUDO>>}

C22_AvailableWitness == op = "checkGsudo" /\ ret.needed /\ ret.available
C22_MissingWitness == op = "checkGsudo" /\ ret.needed /\ ~ret.available

\* the winget children of the last call, and the answers given to the
\* install question during it
WingetSpawns == {k \in DOMAIN spawned : spawned[k].command = WINGET}
InstallAnswers ==
    {logged[i].data : i \in {j \in DOMAIN logged :
        logged[j].text = "Would you like to install gsudo via winget?"}}

\* C23: a run of the program, and a call of checkAndInstallGsudo, asks the
\* install question exactly when gsudo is needed and missing, and starts
\* winget at most once, exactly when that question was confirmed;
\* installGsudo resolves once, to true iff the child closes with code 0
\* (false on another code or an error event); after a failed install the
\* manual instruction is shown and winget is not started again.
C23_InstallAttemptedOnce ==
    /\ op \in {"main", "checkAndInstallGsudo"} =>
          /\ Cardinality(WingetSpawns) <= 1
          /\ InstallAnswers # {} <=>
                (AdminToolEnabled /\ ~host.gsudo /\ (op = "main" => ret = Menu \/ QuickMode))
          /\ WingetSpawns # {} <=> InstallAnswers = {"true"}
          /\ (WingetSpawns # {} /\ host.winget[1] # Closed(0)) =>
                /\ ReportedText("Failed to install gsudo")
                /\ ReportedText("Try manually")
                /\ ~ReportedText("gsudo installed successfully!")
    /\ op = "installGsudo" =>
          /\ ~threw
          /\ Cardinality(WingetSpawns) = 1
          /\ settle([settled |-> FALSE, value |-> FALSE, calls |-> 0], host.winget).settled
          /\ ret <=> host.winget[1] = Closed(0)

\* a confirmed install in which winget closed with a code other than 0
C23_Witness ==
    /\ op \in {"main", "checkAndInstallGsudo"}
    /\ InstallAnswers = {"true"} /\ host.winget = <<Closed(1)>>
    /\ Cardinality(WingetSpawns) = 1 /\ ReportedText("Try manually")

\* winget could not be started: the error event, then a close
C23_ErrorWitness ==
    /\ op = "installGsudo" /\ Len(host.winget) = 2 /\ ret = FALSE

\* the question was declined, in a run of the program
C23_DeclinedWitness ==
    /\ op = "main" /\ InstallAnswers = {"false"} /\ WingetSpawns = {}

----------------------------------------------------------------------------
(* Two instances (SpecRace): two runs of the program share the config      *)
(* directory.  Each addRecent is a read (loadRecents), the opening of       *)
(* recents.json for writing, which truncates it, and the write of the text  *)
(* computed from that read; the steps of the two instances interleave.      *)

\* the addRecent calls one instance makes
MaxCalls == 2

RaceNames == {<<"A">>, <<"B">>}

\* a file that holds text which is no JSON document, of len characters:
\* a file just truncated, or the text of one writer followed by the rest
\* of a longer text written before
Text(len) == [st |-> "text", len |-> len]

\* the length of JSON.stringify(names, null, 2)
RECURSIVE stringifyLength(_)
stringifyLength(items) ==
    IF items = <<>> THEN 2
    ELSE IF Len(items) = 1 THEN 2 + Len(items[1].s) + 6
    ELSE Len(items[1].s) + 6 + stringifyLength(Tail(items))

\* the length of recents.json
fileLength(content) ==
    IF content.st = "absent" THEN 0
    ELSE IF content.st = "json" THEN stringifyLength(content.doc.items)
    ELSE content.len

\* fs.openSync(path, "w"): the file is created or truncated
openSync(d, path) == [d EXCEPT !.files[path] = Text(0)]

\* fs.writeSync of the whole text at offset 0 of the opened file: what lies
\* beyond the text written stays
writeSync(d, path, doc) ==
    IF fileLength(d.files[path]) <= stringifyLength(doc.items)
    THEN [d EXCEPT !.files[path] = Json(doc)]
    ELSE [d EXCEPT !.files[path] = Text(fileLength(d.files[path]))]

Instance(pc, name, doc, calls, out) ==
    [pc |-> pc, name |-> name, doc |-> doc, calls |-> calls, out |-> out]

InitRace ==
    /\ disk = [dir |-> FALSE, files |-> NoFiles]
    /\ Idle

Step(name, i, d, w) ==
    /\ op' = name /\ arg' = i /\ ret' = Undefined /\ threw' = FALSE
    /\ pre' = [disk |-> disk, projects |-> projects]
    /\ disk' = d /\ writes' = w
    /\ logged' = <<>> /\ launched' = <<>> /\ spawned' = <<>>
    /\ UNCHANGED <<projects, selected, request, folders, added, host, defaults>>

\* an instance of the program is started
Start ==
    /\ Len(tasks) < 2
    /\ tasks' = Append(tasks, Instance("idle", <<>>, JArr(<<>>), 0, <<>>))
    /\ Step("start", Len(tasks) + 1, disk, <<>>)

\* ensureConfigDir(); loadRecents(); the list to write is computed
ReadRecents ==
    \E i \in DOMAIN tasks : \E name \in RaceNames :
        /\ tasks[i].pc \in {"idle", "done"} /\ tasks[i].calls < MaxCalls
        /\ LET doc == addRecent(disk, name).disk.files[RECENTS_PATH].doc IN
           tasks' = [tasks EXCEPT ![i] = Instance("read", name, doc, @.calls + 1, @.out)]
        /\ Step("read", i, ensureConfigDir(disk), <<>>)

\* writeFileSync opens the file
OpenRecents ==
    \E i \in DOMAIN tasks :
        /\ tasks[i].pc = "read"
        /\ tasks' = [tasks EXCEPT ![i].pc = "open"]
        /\ Step("open", i, openSync(disk, RECENTS_PATH), <<>>)

\* writeFileSync writes the text and closes the file
WriteRecents ==
    \E i \in DOMAIN tasks :
        /\ tasks[i].pc = "open"
        /\ tasks' = [tasks EXCEPT ![i].pc = "done", ![i].out = Append(@, tasks[i].doc)]
        /\ Step("write", i, writeSync(disk, RECENTS_PATH, tasks[i].doc), <<"addRecent">>)

NextRace == Start \/ ReadRecents \/ OpenRecents \/ WriteRecents

SpecRace == InitRace /\ [][NextRace]_vars

\* an instance is inside writeFileSync: it opened recents.json and has not
\* written yet
Writing == \E i \in DOMAIN tasks : tasks[i].pc = "open"

\* C25: without locking each addRecent writes the list computed from its
\* own read, and whenever no write is under way recents.json holds the
\* complete output of the instance that wrote last, never a mixture of two
\* outputs.
C25_LastWriterWins ==
    (op = "write" /\ ~Writing) => disk.files[RECENTS_PATH] = Json(tasks[arg].doc)

\* both instances added one name, A and B, and the file lacks one of them
C25_LostUpdate ==
    /\ Len(tasks) = 2 /\ ~Writing
    /\ \A i \in DOMAIN tasks : tasks[i].pc = "done" /\ tasks[i].calls = 1
    /\ tasks[1].name # tasks[2].name
    /\ disk.files[RECENTS_PATH].st = "json"
    /\ Len(disk.files[RECENTS_PATH].doc.items) = 1

\* the file is left holding a mixture: the text of the last writer followed
\* by the end of a longer text
C25_Mixture ==
    /\ ~Writing /\ op = "write"
    /\ disk.files[RECENTS_PATH].st = "text"
    /\ disk.files[RECENTS_PATH].len > stringifyLength(tasks[arg].doc.items)

----------------------------------------------------------------------------
(* Checking versions (SpecVersions): checkVersions starts one runCommand    *)
(* per versionable tool; each probe is a child process, a timer and the     *)
(* Promise runCommand returns.  The children end, or not, in any order.     *)

Whitespace == {" ", "\n"}

\* String.prototype.trim
RECURSIVE trimStart(_)
trimStart(str) ==
    IF str # <<>> /\ Head(str) \in Whitespace THEN trimStart(Tail(str)) ELSE str
RECURSIVE trimEnd(_)
trimEnd(str) ==
    IF str # <<>> /\ str[Len(str)] \in Whitespace
    THEN trimEnd(SubSeq(str, 1, Len(str) - 1)) ELSE str
trim(str) == trimEnd(trimStart(str))

\* str.split(sep): the pieces between the occurrences of the character sep
RECURSIVE split(_, _)
split(str, sep) ==
    IF \A i \in DOMAIN str : str[i] # sep THEN <<str>>
    ELSE LET at == CHOOSE i \in DOMAIN str :
                       str[i] = sep /\ \A j \in 1..(i - 1) : str[j] # sep
         IN  <<SubSeq(str, 1, at - 1)>> \o split(SubSeq(str, at + 1, Len(str)), sep)

CMD == <<"c","m","d">>
NotInstalled == <<"N","o","t"," ","i","n","s","t","a","l","l","e","d">>

\* the tools checkVersions probes: enabled, with a non-empty versionArgs
versionable(tools) ==
    LET Keep(t) == t.enabled /\ t.versionArgs # <<>> /\ t.versionArgs[1] # <<>>
    IN  SelectSeq(tools, Keep)

\* runCommand(cmd) just called: the child runs, the timer is armed, the
\* Promise is pending (value = <<>>)
Probe(tool) ==
    [name |-> tool.name,
     cmd |-> <<CMD, <<"/","c">>, tool.executable>> \o split(tool.versionArgs[1], " "),
     child |-> "running", timer |-> "armed", handler |-> "waiting",
     out |-> <<>>, value |-> <<>>, calls |-> 0, rank |-> 0]

\* a resolve under which the last call wins
resolveLast(probe, text, n) ==
    [probe EXCEPT !.calls = @ + 1, !.value = <<text>>,
                  !.rank = IF probe.value = <<>> THEN n ELSE @]

\* resolve(text) on the Promise of a probe; n probes were settled before
resolve(probe, text, n) ==
    IF probe.value # <<>> THEN [probe EXCEPT !.calls = @ + 1]
    ELSE [probe EXCEPT !.calls = @ + 1, !.value = <<text>>, !.rank = n + 1]

Settled == {i \in DOMAIN tasks : tasks[i].value # <<>>}

\* the line of a tool: the first line of the output, or "Not installed"
versionLine(probe) ==
    LET firstLine == trim(split(probe.value[1], "\n")[1])
    IN  [name |-> probe.name,
         version |-> IF firstLine # <<>> THEN firstLine ELSE NotInstalled]

\* the Promise of a call that is still awaited
Pending == [t |-> "pending"]

\* what a version command may print
Outputs == {<<>>, <<"1",".","2","\n","b">>, <<" ","3","\n">>}

VersionRegistries ==
    {Absent, Json(ToolsJson(<<ToolX, ToolY>>)), Json(ToolsJson(<<ToolX>>)),
     Json(ToolsJson(<<ToolY, [ToolY EXCEPT !.id = <<"e">>, !.name = <<"E">>,
                                           !.versionArgs = <<<<>>>>],
                      [ToolX EXCEPT !.enabled = TRUE,
                                    !.versionArgs = <<<<"-","v"," ","-","s">>>>]>>))}

InitVersions ==
    /\ host = QuietHost
    /\ projects = <<>> /\ request = Undefined /\ folders = {}
    /\ \E t \in VersionRegistries : StartLaunch([NoFiles EXCEPT ![TOOLS_PATH] = t])

Progress(name, i, r, l) ==
    /\ op' = name /\ arg' = i /\ ret' = r /\ threw' = FALSE
    /\ pre' = [disk |-> disk, projects |-> projects]
    /\ logged' = l
    /\ UNCHANGED <<disk, writes, launched, spawned,
                   projects, selected, request, folders, added, host, defaults>>

\* checkVersions() up to the await of Promise.all
CheckVersions ==
    /\ op = "init"
    /\ LET tools == versionable(loadTools(disk).ret) IN
       IF tools = <<>>
       THEN /\ tasks' = <<>>
            /\ Progress("checkVersions", Undefined, Undefined,
                        loadTools(disk).logged \o
                        <<Msg("note", "No versionable tools enabled.", Undefined)>>)
       ELSE /\ tasks' = [i \in DOMAIN tools |-> Probe(tools[i])]
            /\ Progress("checkVersions", Undefined, Pending,
                        loadTools(disk).logged \o
                        <<Msg("spinner", "Checking", [tools |-> Len(tools)])>>)

\* proc.exited resolves for a child that ended by itself: the timer is
\* cleared and the output is read
ChildExits ==
    \E i \in DOMAIN tasks : \E out \in Outputs :
        /\ tasks[i].child = "running"
        /\ tasks' = [tasks EXCEPT ![i].child = "exited", ![i].out = out,
                                  ![i].timer = "cleared", ![i].handler = "reading"]
        /\ Progress("exited", [probe |-> i], ret, logged)

\* the timer of a probe fires: proc.kill(); resolve("")
TimeoutFires ==
    \E i \in DOMAIN tasks : \E out \in Outputs :
        /\ tasks[i].timer = "armed"
        /\ tasks' = [tasks EXCEPT
                        ![i] = [resolve(tasks[i], <<>>, Cardinality(Settled))
                                   EXCEPT !.timer = "fired", !.child = "killed", !.out = out]]
        /\ Progress("timeout", [probe |-> i], ret, logged)

\* proc.exited resolves for a killed child: clearTimeout, the output is read
KilledChildExits ==
    \E i \in DOMAIN tasks :
        /\ tasks[i].child = "killed" /\ tasks[i].handler = "waiting"
        /\ tasks' = [tasks EXCEPT ![i].handler = "reading"]
        /\ Progress("exited", [probe |-> i], ret, logged)

\* the read of the output ends: resolve(text.trim()), or resolve("") when
\* it failed
OutputRead ==
    \E i \in DOMAIN tasks : \E ok \in BOOLEAN :
        /\ tasks[i].handler = "reading"
        /\ tasks' = [tasks EXCEPT
                        ![i] = [resolve(tasks[i], IF ok THEN trim(tasks[i].out) ELSE <<>>,
                                        Cardinality(Settled))
                                   EXCEPT !.handler = IF ok THEN "done" ELSE "failed"]]
        /\ Progress("read", [probe |-> i], ret, logged)

\* Promise.all is fulfilled: the spinner stops and the lines are shown
Render ==
    /\ ret = Pending
    /\ Settled = DOMAIN tasks
    /\ UNCHANGED tasks
    /\ Progress("checkVersions", Undefined, Undefined,
                logged \o <<Msg("spinner", "Versions checked", Undefined),
                            Msg("note", "Installed Versions",
                                [lines |-> [i \in DOMAIN tasks |-> versionLine(tasks[i])]])>>)

NextVersions ==
    \/ CheckVersions
    \/ ChildExits
    \/ TimeoutFires
    \/ KilledChildExits
    \/ OutputRead
    \/ Render

\* timers fire unless cleared, exits of killed children are observed, reads
\* end, and the continuation of Promise.all runs; a child need not end
SpecVersions ==
    /\ InitVersions /\ [][NextVersions]_vars
    /\ WF_vars(TimeoutFires) /\ WF_vars(KilledChildExits)
    /\ WF_vars(OutputRead) /\ WF_vars(Render)

\* the tools of the loaded registry that are enabled and have versionArgs
Versionable ==
    {j \in EnabledLoaded :
        LoadedTools[j].versionArgs # <<>> /\ LoadedTools[j].versionArgs[1] # <<>>}
PlaceOfTool(name) == CHOOSE j \in DOMAIN LoadedTools : LoadedTools[j].name = name

Rendered == op = "checkVersions" /\ ret = Undefined /\ tasks # <<>>

VersionsSafe ==
    /\ (op = "checkVersions" /\ ret = Pending) =>
          \A i \in DOMAIN tasks : tasks[i].child = "running" /\ tasks[i].timer = "armed"
    /\ tasks # <<>> =>
          /\ Len(tasks) = Cardinality(Versionable)
          /\ \A i \in DOMAIN tasks : PlaceOfTool(tasks[i].name) \in Versionable
          /\ \A i, j \in DOMAIN tasks :
                i < j => PlaceOfTool(tasks[i].name) < PlaceOfTool(tasks[j].name)
    /\ \A i \in DOMAIN tasks :
          /\ tasks[i].value # <<>> <=> tasks[i].calls > 0
          /\ tasks[i].timer = "fired" =>
                (tasks[i].child = "killed" /\ tasks[i].value = << <<>> >>)
          /\ (tasks[i].timer = "cleared" /\ tasks[i].handler = "done") =>
                tasks[i].value = <<trim(tasks[i].out)>>
    /\ Rendered =>
          /\ Settled = DOMAIN tasks
          /\ LET lines == logged[Len(logged)].data.lines IN
             /\ Len(lines) = Len(tasks)
             /\ \A i \in DOMAIN tasks :
                   /\ lines[i].name = tasks[i].name
                   /\ tasks[i].value = << <<>> >> => lines[i].version = NotInstalled
                   /\ tasks[i].timer = "fired" => lines[i].version = NotInstalled
    /\ (op = "checkVersions" /\ tasks = <<>>) =>
          (Versionable = {} /\ ret = Undefined)

----------------------------------------------------------------------------
(* The project list over a session (SpecProjects): passes of the main loop  *)
(* that reload the projects and run addFlow or manageFlow (rename, change   *)
(* of path, delete).                                                        *)

\* the longest project list the session grows
\* addFlow is offered while the list is shorter than this
MaxKept == 2

ProjC == NewProject(<<"c">>)

\* projects.json at the start: pairwise distinct names, not in
\* alphabetical order
KeptLists == {<<ProjB, ProjA>>, <<ProjC, ProjA, ProjB>>}

\* what the user may enter in addFlow
Entries ==
    [name : {<<>>, <<<<"a">>>>}, path : {<<>>, <<NewFolder>>},
     addDetected : {"true", "false"}, more : {<<>>}]

InitProjects ==
    /\ projects = <<>>
    /\ request = Undefined
    /\ host = QuietHost
    /\ \E ps \in KeptLists :
          /\ folders = PathsOf(ps) \cup {NewFolder, join(NewFolder, <<"s","r","c">>)}
          /\ StartLaunch([NoFiles EXCEPT ![CONFIG_PATH] = Json(ProjectsJson(ps))])

\* main's loop: const projects = loadProjects(); await addFlow(projects)
AddProject ==
    /\ LET ps == loadProjects(disk).ret IN
       /\ Len(ps) < MaxKept
       /\ \E entry \in Entries :
             LET r == addFlow(disk, ps, folders, entry) IN
             /\ Commit("addFlow", entry, r.out)
             /\ projects' = r.projects
    /\ UNCHANGED <<selected, request, folders, added, host, tasks, defaults>>

\* main's loop: const projects = loadProjects(); await manageFlow(projects),
\* for the entries of the project menu that rename or delete a project
ManageProject ==
    /\ LET ps == loadProjects(disk).ret IN
       \E choice \in {c \in Choices(ps) :
                          c.action \notin {"edit-workspaces", "edit-path"}} :
          LET r == manageFlow(disk, ps, folders, choice) IN
          /\ Commit("manageFlow", choice, r.out)
          /\ projects' = r.projects
    /\ UNCHANGED <<selected, request, folders, added, host, tasks, defaults>>

NextProjects == AddProject \/ ManageProject

SpecProjects == InitProjects /\ [][NextProjects]_vars

\* the project list projects.json holds now / held before the last flow
Persisted == loadProjects(disk).ret
PersistedBefore == loadProjects(pre.disk).ret

\* C27: projects.json starts with pairwise distinct project names and
\* still has pairwise distinct names after any sequence of add, rename and
\* delete flows.
C27_ProjectNamesUnique ==
    \A i, j \in DOMAIN Persisted :
        i # j => Persisted[i].name # Persisted[j].name

\* the stored index of the project shown at place k of "Select a project":
\* the menu lists the projects by lower-case name, equal names in stored order
MenuOrder(ps) ==
    CHOOSE order \in [DOMAIN ps -> DOMAIN ps] :
        \A i, j \in DOMAIN ps :
            i < j =>
                LET c == localeCompare(toLowerCase(ps[order[i]].name),
                                       toLowerCase(ps[order[j]].name))
                IN  c < 0 \/ (c = 0 /\ order[i] < order[j])

DeleteAsked == op = "manageFlow" /\ arg.action = "delete"
DeletePicked == MenuOrder(PersistedBefore)[arg.project]

\* C29: a confirmed delete in manageFlow removes the project picked in the
\* alphabetical menu, keeps the other projects in their stored order and
\* saves the list; a declined or cancelled confirmation leaves the list in
\* memory and projects.json as they were.
C29_DeleteRemovesTheSelected ==
    DeleteAsked =>
        IF arg.confirmed = "true"
        THEN /\ projects = [k \in 1..(Len(PersistedBefore) - 1) |->
                               IF k < DeletePicked THEN PersistedBefore[k]
                               ELSE PersistedBefore[k + 1]]
             /\ Persisted = projects
        ELSE /\ projects = PersistedBefore
             /\ disk = pre.disk

\* a confirmed delete of a project whose place in the menu differs from its
\* stored index, out of three projects
C29_Witness ==
    /\ DeleteAsked
    /\ arg.confirmed = "true"
    /\ Len(PersistedBefore) = 3
    /\ DeletePicked # arg.project
    /\ Len(Persisted) = 2

\* a declined delete
C29_DeclinedWitness ==
    /\ DeleteAsked
    /\ arg.confirmed = "false"
    /\ Len(Persisted) = 3

----------------------------------------------------------------------------
(* Managing the tool registry: manageTools, addTool, editTool *)

\* loadTools() in a process whose DEFAULT_TOOLS array holds `catalog`: the
\* array it returns, and whether that array is DEFAULT_TOOLS itself (the
\* three `return DEFAULT_TOOLS` / `: DEFAULT_TOOLS` of loadTools) or a fresh
\* one built by the schema
loadedTools(d, catalog) ==
    LET out == loadTools(d)
        data == JSONparse(d.files[TOOLS_PATH])
        fresh == /\ existsSync(d, TOOLS_PATH)
                 /\ data.ok /\ ToolsConfigSchemaOk(data.v)
                 /\ Len(ToolsConfigSchemaParse(data.v)) > 0
    IN  [tools |-> IF fresh THEN out.ret ELSE catalog, shared |-> ~fresh, out |-> out]

\* s.replace(/\s+/g, "-")
RECURSIVE dashed(_)
dashed(s) ==
    IF s = <<>> THEN <<>>
    ELSE IF Head(s) \in Whitespace THEN <<"-">> \o dashed(trimStart(Tail(s)))
    ELSE <<Head(s)>> \o dashed(Tail(s))

\* (text as string) || "--version"
orVersion(text) == IF text = <<>> THEN <<"-","-","v","e","r","s","i","o","n">> ELSE text

\* saveTools(tools) followed by p.log.success
savedTools(d, ts, text, data) ==
    LET s == saveTools(d, ts) IN
    IF s.threw THEN s ELSE [s EXCEPT !.logged = <<Msg("success", text, data)>>]

\* addTool(tools): entry holds the answers to its prompts, <<>> or "cancel"
\* for a cancelled one.  Yields the tools array afterwards and the outcome.
addTool(d, tools, entry) ==
    LET same == [tools |-> tools, out |-> Returns(Undefined, d)] IN
    IF \/ entry.name = <<>> \/ entry.executable = <<>> \/ entry.versionArgs = <<>>
       \/ entry.isUpdatable = "cancel"
       \/ (entry.isUpdatable = "true" /\ entry.cmd = <<>>)
       \/ entry.launchInTerminal = "cancel"
    THEN same
    ELSE LET newTool ==
                 [id |-> dashed(toLowerCase(entry.name[1])),
                  name |-> entry.name[1],
                  executable |-> entry.executable[1],
                  versionArgs |-> <<orVersion(entry.versionArgs[1])>>,
                  updateCommand |-> IF entry.isUpdatable = "true" THEN entry.cmd ELSE <<>>,
                  enabled |-> TRUE,
                  launchInTerminal |-> entry.launchInTerminal = "true",
                  supportsAdmin |-> <<>>, launchArgs |-> <<>>,
                  projectFilePatterns |-> <<>>]
             pushed == Append(tools, newTool)
         IN  [tools |-> pushed, out |-> savedTools(d, pushed, "Tool added", entry.name[1])]

\* tools.findIndex((t) => t.id === toolId): 0 for -1
findIndex(tools, toolId) ==
    IF \E i \in DOMAIN tools : tools[i].id = toolId
    THEN CHOOSE i \in DOMAIN tools :
             tools[i].id = toolId /\ \A j \in 1..(i - 1) : tools[j].id # toolId
    ELSE 0

\* editTool(tools, toolId): edit.action is the entry picked ("cancel" when
\* cancelled), edit.text the text typed (<<>>: cancelled), edit.confirmed the
\* answer to the delete confirmation
editTool(d, tools, toolId, edit) ==
    LET same == [tools |-> tools, out |-> Returns(Undefined, d)]
        toolIndex == findIndex(tools, toolId)
        tool == tools[toolIndex]
        with(ts, text, data) == [tools |-> ts, out |-> savedTools(d, ts, text, data)]
    IN
    IF toolIndex = 0 \/ edit.action \in {"cancel", "back"} THEN same
    ELSE CASE edit.action = "toggle" ->
                with([tools EXCEPT ![toolIndex].enabled = ~tool.enabled],
                     IF ~tool.enabled THEN "enabled" ELSE "disabled", tool.name)
           [] edit.action = "edit-name" ->
                IF edit.text = <<>> \/ edit.text[1] = <<>> THEN same
                ELSE with([tools EXCEPT ![toolIndex].name = edit.text[1]],
                          "Name updated", Undefined)
           [] edit.action = "edit-executable" ->
                IF edit.text = <<>> \/ edit.text[1] = <<>> THEN same
                ELSE with([tools EXCEPT ![toolIndex].executable = edit.text[1]],
                          "Executable updated", Undefined)
           [] edit.action = "edit-version" ->
                IF edit.text = <<>> THEN same
                ELSE with([tools EXCEPT ![toolIndex].versionArgs = <<orVersion(edit.text[1])>>],
                          "Version args updated", Undefined)
           [] edit.action = "edit-update" ->
                IF edit.text = <<>> THEN same
                ELSE with([tools EXCEPT ![toolIndex].updateCommand =
                               IF edit.text[1] = <<>> THEN <<>> ELSE edit.text],
                          "Update command updated", Undefined)
           [] edit.action = "delete" ->
                IF edit.confirmed # "true" THEN same
                ELSE with([k \in 1..(Len(tools) - 1) |->
                              IF k < toolIndex THEN tools[k] ELSE tools[k + 1]],
                          "deleted", tool.name)

\* one pass of the loop of manageTools() in a process whose DEFAULT_TOOLS
\* holds `catalog`.  choice.pick is the entry of "Manage Tools" ("tool": the
\* tool choice.id), choice.confirmed the answer to the reset confirmation.
\* Yields DEFAULT_TOOLS afterwards and the outcome of the calls.
manageTools(d, catalog, choice) ==
    LET l == loadedTools(d, catalog)
        same == [catalog |-> catalog, out |-> l.out]
        after(r) == [catalog |-> IF l.shared THEN r.tools ELSE catalog,
                     out |-> Then(l.out, r.out)]
    IN
    CASE choice.pick \in {"cancel", "back"} -> same
      [] choice.pick = "add" -> after(addTool(d, l.tools, choice.entry))
      [] choice.pick = "reset" ->
            IF choice.confirmed = "true"
            THEN [same EXCEPT !.out = Then(l.out, savedTools(d, catalog,
                                              "Tools reset to defaults", Undefined))]
            ELSE same
      [] choice.pick = "tool" -> after(editTool(d, l.tools, choice.id, choice.edit))

----------------------------------------------------------------------------
(* The tool registry under manageTools, from a tools.json that is absent,  *)
(* empty or holds one tool.                                                *)

\* addTool is offered while fewer tools than this carry the id of MyTool
MaxAdded == 1

NoEntry ==
    [name |-> <<>>, executable |-> <<>>, versionArgs |-> <<>>,
     isUpdatable |-> "cancel", cmd |-> <<>>, launchInTerminal |-> "cancel"]
MyTool ==
    [name |-> <<<<"M"," ","t">>>>, executable |-> <<<<"m">>>>, versionArgs |-> <<<<>>>>,
     isUpdatable |-> "true", cmd |-> <<<<"u">>>>, launchInTerminal |-> "false"]
NoEdit == [action |-> "back", text |-> <<>>, confirmed |-> "cancel"]

\* what the user may do in editTool
Edits ==
    [action : {"cancel", "back", "toggle"}, text : {<<>>}, confirmed : {"cancel"}]
    \cup [action : {"edit-name"}, text : {<<>>, <<<<"n">>>>}, confirmed : {"cancel"}]
    \cup [action : {"edit-update", "edit-version"}, text : {<<>>, <<<<>>>>},
          confirmed : {"cancel"}]
    \cup [action : {"edit-executable"}, text : {<<DEFAULT_TOOLS[1].executable>>},
          confirmed : {"cancel"}]
    \cup [action : {"delete"}, text : {<<>>}, confirmed : Answers]

\* the tools the user edits
EditedIds == {DEFAULT_TOOLS[1].id, ToolX.id}

\* what the user may pick in one pass of manageTools
ToolChoices(tools) ==
    [pick : {"cancel", "back"}, id : {<<>>}, entry : {NoEntry}, edit : {NoEdit},
     confirmed : {"cancel"}]
    \cup [pick : {"add"}, id : {<<>>},
          entry : IF Cardinality({i \in DOMAIN tools :
                                    tools[i].id = dashed(toLowerCase(MyTool.name[1]))})
                     < MaxAdded
                  THEN {NoEntry, MyTool} ELSE {NoEntry},
          edit : {NoEdit}, confirmed : {"cancel"}]
    \cup [pick : {"reset"}, id : {<<>>}, entry : {NoEntry}, edit : {NoEdit},
          confirmed : Answers]
    \cup [pick : {"tool"}, id : {tools[i].id : i \in DOMAIN tools} \cap EditedIds,
          entry : {NoEntry}, edit : Edits, confirmed : {"cancel"}]

InitCatalog ==
    /\ projects = <<>>
    /\ request = Undefined
    /\ host = QuietHost
    /\ folders = {}
    /\ \E c \in {Absent, Json(JArr(<<>>)), Json(ToolsJson(<<ToolX>>))} :
          StartLaunch([NoFiles EXCEPT ![TOOLS_PATH] = c])

\* toolsFlow: await manageTools(), one pass of its loop
ManageTools ==
    /\ \E choice \in ToolChoices(loadedTools(disk, defaults).tools) :
          LET r == manageTools(disk, defaults, choice) IN
          /\ Commit("manageTools", choice, r.out)
          /\ defaults' = r.catalog
    /\ UNCHANGED <<projects, selected, request, folders, added, host, tasks>>

NextCatalog == ManageTools

SpecCatalog == InitCatalog /\ [][NextCatalog]_vars

\* C28: DEFAULT_TOOLS keeps its initial value through any sequence of
\* tool-management operations, also those made while tools.json is absent,
\* so that a confirmed "Reset to defaults" writes the built-in catalog.
C28_DefaultCatalogImmutable ==
    /\ defaults = DEFAULT_TOOLS
    /\ (op = "manageTools" /\ arg.pick = "reset" /\ arg.confirmed = "true" /\ ~threw)
           => disk.files[TOOLS_PATH] = Json(ToolsJson(DEFAULT_TOOLS))

----------------------------------------------------------------------------
(* Interactive mode: the loop of main() *)

\* settingsFlow(): choice.action is the entry picked ("cancel" when
\* cancelled), choice.text the text typed (<<>>: cancelled), which the
\* prompt of the code path validates; an empty text yields the defaultValue
settingsFlow(d, choice) ==
    LET loaded == loadSettings(d)
        settings == loaded.ret
        typed(current) == IF choice.text[1] = <<>> THEN current ELSE choice.text[1]
        saved(st, text) ==
            LET w == saveSettings(d, st) IN
            Then(loaded, IF w.threw THEN w
                         ELSE [w EXCEPT !.logged = <<Msg("success", text, Undefined)>>])
    IN
    IF choice.action \in {"cancel", "back"} \/ choice.text = <<>>
    THEN [loaded EXCEPT !.ret = Undefined]
    ELSE CASE choice.action = "codePath" ->
                saved([settings EXCEPT !.defaultCodePath = typed(@)],
                      "Default code path set")
           [] choice.action = "defaultTool" ->
                saved([settings EXCEPT !.defaultTool = typed(@)], "Default tool set")

\* the tools updateTools offers: enabled, with a non-empty updateCommand
updatable(tools) ==
    LET Keep(t) == t.enabled /\ t.updateCommand # <<>> /\ t.updateCommand[1] # <<>>
    IN  SelectSeq(tools, Keep)

\* updateTools(): toolToUpdate is "cancel", "back", "all" or "tool" (the
\* tool id).  Bun.spawnSync runs each update command to its end.
updateTools(d, catalog, toolToUpdate, id) ==
    LET l == loadedTools(d, catalog)
        tools == updatable(l.tools)
        Picked(t) == toolToUpdate = "all" \/ t.id = id
        toUpdate == SelectSeq(tools, Picked)
    IN
    IF tools = <<>>
    THEN [l.out EXCEPT !.ret = Undefined,
                       !.logged = @ \o <<Msg("note", "No updatable tools enabled.", Undefined)>>]
    ELSE IF toolToUpdate \in {"cancel", "back"} THEN [l.out EXCEPT !.ret = Undefined]
    ELSE [l.out EXCEPT
             !.ret = Undefined,
             !.spawned = [i \in DOMAIN toUpdate |->
                             Child(CMD, <<<<"/","c">>>> \o split(toUpdate[i].updateCommand[1], " "),
                                   "inherit", {})],
             !.logged = @ \o [i \in 1..(2 * Len(toUpdate)) |->
                                 IF i % 2 = 1
                                 THEN Msg("step", "Updating", toUpdate[(i + 1) \div 2].name)
                                 ELSE Msg("success", "update complete", toUpdate[i \div 2].name)]]

\* the loop of manageTools() for the picks of the user, of which the last
\* one is "back" or "cancel"
RECURSIVE manageToolsLoop(_, _, _)
manageToolsLoop(sofar, catalog, picks) ==
    LET r == manageTools(sofar.disk, catalog, Head(picks))
        out == Then(sofar, r.out)
    IN  IF out.threw \/ Head(picks).pick \in {"cancel", "back"}
        THEN [catalog |-> r.catalog, out |-> [out EXCEPT !.ret = Undefined]]
        ELSE manageToolsLoop(out, r.catalog, Tail(picks))

\* toolsFlow(): pick.action is the entry of "Tools & Updates" ("cancel" when
\* cancelled).  The entry "check-versions" is followed step by step in
\* CheckVersions and the actions after it.
toolsFlow(d, catalog, pick) ==
    CASE pick.action \in {"cancel", "back"} ->
            [catalog |-> catalog, out |-> Returns(Undefined, d)]
      [] pick.action = "update" ->
            [catalog |-> catalog, out |-> updateTools(d, catalog, pick.update, pick.id)]
      [] pick.action = "manage" -> manageToolsLoop(Returns(Undefined, d), catalog, pick.passes)

\* the catch of the loop of main(): an exception of the flow is logged and
\* the loop goes on; an uncaught exception ends the process with code 1
caught(out) ==
    IF out.ret = Uncaught THEN [out EXCEPT !.ret = Exit(1)]
    ELSE IF out.threw
    THEN [out EXCEPT !.ret = Menu, !.threw = FALSE,
                     !.logged = @ \o <<Msg("error", "String(err)", Undefined)>>]
    ELSE [out EXCEPT !.ret = Menu]

\* the flow the main menu enters for pick.action, with the projects just
\* loaded
entered(d, ps, catalog, dirs, pick) ==
    CASE pick.action = "launch" ->
            [projects |-> ps, catalog |-> catalog,
             out |-> launchFlow(d, ps, dirs, pick.launch)]
      [] pick.action = "tools" ->
            [projects |-> ps] @@ toolsFlow(d, catalog, pick.tools)
      [] pick.action = "add" ->
            [catalog |-> catalog] @@ addFlow(d, ps, dirs, pick.add)
      [] pick.action = "manage" ->
            [catalog |-> catalog] @@ manageFlow(d, ps, dirs, pick.manage)
      [] pick.action = "settings" ->
            [projects |-> ps, catalog |-> catalog,
             out |-> settingsFlow(d, pick.settings)]

\* the flow's result after the try/catch, following the load `loaded`
after(loaded, flow) ==
    [projects |-> flow.projects, catalog |-> flow.catalog,
     out |-> caught(Then(loaded, flow.out))]

\* one pass of the while (true) of main(): pick.action is the entry of the
\* main menu ("cancel" when cancelled), pick.launch, pick.tools, pick.add,
\* pick.manage and pick.settings the answers inside the flow entered.
\* Yields Menu when the loop goes on, Exit(0) after process.exit(0), Exit(1)
\* when an uncaught exception ended the process.
mainLoop(d, catalog, dirs, pick) ==
    IF pick.action \in {"cancel", "exit"}
    THEN [projects |-> loadProjects(d).ret, catalog |-> catalog,
          out |-> [loadProjects(d) EXCEPT
                      !.ret = Exit(0),
                      !.logged = @ \o <<Msg("outro", "Bye!", Undefined)>>]]
    ELSE after(loadProjects(d), entered(d, loadProjects(d).ret, catalog, dirs, pick))

----------------------------------------------------------------------------
(* A session of the interactive mode: the program is started without       *)
(* arguments and the user goes through the main menu until the process     *)
(* ends.                                                                   *)

NoLaunch == [project |-> 0, ws |-> 0, tools |-> <<>>]
NoTools == [action |-> "back", update |-> "back", id |-> <<>>, passes |-> <<>>]
NoAdd == [name |-> <<>>, path |-> <<>>, addDetected |-> "false", more |-> <<>>]
NoManage == [project |-> 0, action |-> "cancel", text |-> <<>>, confirmed |-> "cancel"]
NoSetting == [action |-> "back", text |-> <<>>]
NoPick ==
    [action |-> "exit", launch |-> NoLaunch, tools |-> NoTools, add |-> NoAdd,
     manage |-> NoManage, settings |-> NoSetting]

\* the passes of manageTools in which the user toggles the first tool, then
\* goes back
TogglesFirst(tools) ==
    <<[pick |-> "tool", id |-> tools[1].id, entry |-> NoEntry,
       edit |-> [action |-> "toggle", text |-> <<>>, confirmed |-> "cancel"],
       confirmed |-> "cancel"],
      [pick |-> "back", id |-> <<>>, entry |-> NoEntry, edit |-> NoEdit,
       confirmed |-> "cancel"]>>

\* what the user may do in one pass of the main menu
MenuPicks(ps, tools) ==
    {[NoPick EXCEPT !.action = a] : a \in {"cancel", "exit"}}
    \cup {[NoPick EXCEPT !.action = "launch", !.launch = l] :
             l \in [project : 0..Len(ps), ws : {1}, tools : {<<>>, <<1>>}]}
    \cup {[NoPick EXCEPT !.action = "tools", !.tools = t] :
             t \in {NoTools,
                    [NoTools EXCEPT !.action = "update", !.update = "all"],
                    [NoTools EXCEPT !.action = "manage", !.passes = TogglesFirst(tools)]}}
    \cup {[NoPick EXCEPT !.action = "add", !.add = e] :
             e \in IF Len(ps) < MaxKept
                   THEN {NoAdd, [NoAdd EXCEPT !.name = <<<<"a">>>>, !.path = <<NewFolder>>]}
                   ELSE {NoAdd}}
    \cup {[NoPick EXCEPT !.action = "manage", !.manage = m] :
             m \in {NoManage,
                    [NoManage EXCEPT !.project = 1, !.action = "delete",
                                     !.confirmed = "true"]}}
    \cup {[NoPick EXCEPT !.action = "settings", !.settings = c] :
             c \in {NoSetting, [action |-> "defaultTool", text |-> <<ToolY.id>>]}}

InteractiveHosts ==
    [entries : {<<>>},
     results : {<<"ok", "ok">>, <<"throws", "ok">>, <<"emits", "ok">>},
     gsudo : {TRUE}, winget : {<<Closed(0)>>}]

InitInteractive ==
    /\ host \in InteractiveHosts
    /\ projects = <<>>
    /\ request = <<>>
    /\ folders = PathsOf(<<ProjB, ProjA>>) \cup {NewFolder}
    /\ \E r \in {Absent, Json(JObj(NoFields))} :
          StartLaunch([NoFiles EXCEPT ![CONFIG_PATH] = Json(ProjectsJson(<<ProjB, ProjA>>)),
                                      ![TOOLS_PATH] = Json(ToolsJson(<<ToolY>>)),
                                      ![RECENTS_PATH] = r])

\* the program is started and reaches the main menu
StartInteractive ==
    /\ op = "init"
    /\ Main

\* the user picks an entry of the main menu
MainLoop ==
    /\ op \in {"main", "mainLoop"}
    /\ ret = Menu
    /\ \E pick \in MenuPicks(loadProjects(disk).ret, loadedTools(disk, defaults).tools) :
       \E r \in {mainLoop(disk, defaults, folders, pick)} :
          /\ Commit("mainLoop", pick, r.out)
          /\ projects' = r.projects
          /\ defaults' = r.catalog
    /\ UNCHANGED <<selected, request, folders, added, host, tasks>>

NextInteractive == StartInteractive \/ MainLoop

SpecInteractive == InitInteractive /\ [][NextInteractive]_vars

\* the last pass of the main menu entered an action
ActionEntered == op = "mainLoop" /\ arg.action \notin {"cancel", "exit"}

\* the last pass entered launchFlow with projects to show and a recents.json
\* that is not a list, on which recents.includes raises
LaunchRaised ==
    /\ op = "mainLoop" /\ arg.action = "launch"
    /\ PersistedBefore # <<>>
    /\ pre.disk.files[RECENTS_PATH] = Json(JObj(NoFields))

\* C24: an exception raised inside a selected action is caught by the main
\* loop and logged, and the main menu is shown again; the session ends only
\* when the user selects Exit or cancels the main menu, never because an
\* action threw.
C24_ActionErrorsReturnToMenu ==
    /\ ActionEntered => ret = Menu
    /\ LaunchRaised => ReportedText("String(err)")

====
